---- MODULE Spec2Model ----
(***************************************************************************)
(* Functor evaluation engine of lsst.pipe.tasks.functors: column           *)
(* resolution, single-functor and composite evaluation with containment of *)
(* transform failures, the filter cascade of CompositeFunctor, the        *)
(* construction of composites (from a sequence, from a YAML definition     *)
(* with its flag renaming) and the expression functor (CustomFunctor's     *)
(* columns, mag_aware_eval).                                               *)
(*                                                                         *)
(* Exceptions are modelled as values: every operator that models a Python  *)
(* function returns a record [ok, exc, val]; ok = FALSE means the call     *)
(* raised the exception named by exc.                                      *)
(***************************************************************************)
EXTENDS Integers, Sequences, FiniteSets, TLC

VARIABLES functors, composites, prev, call, outcome, exc, result, readLog, nops

vars == <<functors, composites, prev, call, outcome, exc, result, readLog, nops>>

(* Bounds of the model. *)
NumRows == 2
MaxOps == 3
MaxFuncs == 3
MaxNameLen == 3
MaxRules == 2
MaxFlags == 2

(***************************************************************************)
(* Values                                                                  *)
(***************************************************************************)
None == "None"
Filters == {"g", "r"}
FiltOrNone == Filters \cup {None}
Datasets == {"ref", "meas", "forced_src"}
Keys == {"x", "y"}
FunctorIds == {"column", "mag", "color", "bare", "colsOnly"}
CompositeIds == {"c1", "c2"}

Ok(v) == [ok |-> TRUE, exc |-> "", val |-> v]
Raise(e) == [ok |-> FALSE, exc |-> e, val |-> {}]

(* Cell values: a number, the missing-value sentinel, a non-numeric object, *)
(* and the symbolic results of the magnitude and colour formulas.           *)
Num(n) == [t |-> "num", v |-> n, w |-> 0]
NaN == [t |-> "nan", v |-> 0, w |-> 0]
Str == [t |-> "str", v |-> 0, w |-> 0]

(***************************************************************************)
(* The functor objects of the model and their class-level attributes.      *)
(*   column   = Column("a")                                                *)
(*   mag      = Mag("b")            (col = fluxName("b") = "b_instFlux")   *)
(*   color    = Color("b", filt2 = "r", filt1 = "g")                       *)
(*   bare     = Functor()           (neither _columns nor _func)           *)
(*   colsOnly = a subtype that sets _columns = ["a"] but not _func         *)
(***************************************************************************)
ClassOf(f) ==
    CASE f = "column" -> "Column"
      [] f = "mag" -> "Mag"
      [] f = "color" -> "Color"
      [] f = "bare" -> "Functor"
      [] f = "starGalaxy" -> "StarGalaxyLabeller"
      [] OTHER -> "ColsOnly"

(* The labellers are kept apart from the other functor objects:            *)
(*   starGalaxy = StarGalaxyLabeller()                                     *)
LabellerIds == {"starGalaxy"}

(* StarGalaxyLabeller._column *)
ExtendednessCol == "base_ClassificationExtendedness_value"

ColOf(f) ==
    IF f \in {"column", "colsOnly"} THEN "a"
    ELSE IF f \in LabellerIds THEN ExtendednessCol ELSE "b_instFlux"

Filt1 == "g"
Filt2 == "r"

defaultDataset(f) ==
    CASE ClassOf(f) = "Mag" -> "meas"
      [] ClassOf(f) = "Color" -> "forced_src"
      [] OTHER -> "ref"

Range(s) == { s[i] : i \in DOMAIN s }

(* Functor._columnLevels, in the order the class lists them. *)
columnLevels == <<"filter", "dataset", "column">>

dfLevels(f) == IF ClassOf(f) = "Color" THEN {"filter", "column"} ELSE {"column"}

(* Functor.filt as read: Color's property always returns None. *)
FiltOf(fs, f) == IF ClassOf(f) = "Color" THEN None ELSE fs[f].filt

(* Mutant: every functor stores the filter assigned to it, a Color too. *)
SetFiltAny(fs, f, v) == [fs EXCEPT ![f].filt = v]

(* Functor.filt as assigned: Color's setter does nothing. *)
SetFilt(fs, f, v) == IF ClassOf(f) = "Color" THEN fs ELSE [fs EXCEPT ![f].filt = v]

(* Functor.name: the base class returns the exception class itself. *)
name(f) ==
    CASE ClassOf(f) = "Column" -> ColOf(f)
      [] ClassOf(f) = "Mag" -> "mag_b_instFlux"
      [] ClassOf(f) = "Color" -> "r - g (b_instFlux)"
      [] ClassOf(f) = "StarGalaxyLabeller" -> "label"
      [] OTHER -> "<class 'NotImplementedError'>"

(* Functor.shortname, and Color's override of it. *)
shortname(f) == IF ClassOf(f) = "Color" THEN "b_instFlux_rmg" ELSE name(f)

(* Functor.columns and its overrides. *)
columns(f) ==
    CASE ClassOf(f) = "Functor" -> Raise("NotImplementedError")
      [] ClassOf(f) = "Color" -> Ok({ColOf(f)})
      [] OTHER -> Ok({ColOf(f)})

(***************************************************************************)
(* Tables (the ParquetTable collaborator).  A table is hierarchical        *)
(* (MultilevelParquetTable) or flat; a hierarchical one lists its column   *)
(* levels in the order of its column index (columnLevels) and the values   *)
(* of its filter level in order (columnLevelNames).  bdata says what       *)
(* the cells of column b_instFlux hold: numbers, a missing value in row 1, *)
(* or non-numeric objects.                                                 *)
(***************************************************************************)
Table(multi, levels, filters, readFails, bdata) ==
    [multi |-> multi, levels |-> levels, filters |-> filters,
     readFails |-> readFails, bdata |-> bdata]

Tables ==
    { Table(TRUE, <<"filter", "dataset", "column">>, <<"g", "r">>, FALSE, "num"),
      Table(TRUE, <<"dataset", "filter", "column">>, <<"r", "g">>, FALSE, "nan"),
      Table(TRUE, <<"filter", "dataset", "column">>, <<"g", "r">>, FALSE, "str"),
      Table(TRUE, <<"filter", "column">>, <<"g", "r">>, FALSE, "num"),
      Table(TRUE, <<"filter", "dataset", "column", "tract">>, <<"g", "r">>, FALSE, "num"),
      Table(TRUE, <<"filter", "dataset", "column">>, <<"g", "r">>, TRUE, "num"),
      Table(FALSE, <<>>, <<>>, FALSE, "num"),
      Table(FALSE, <<>>, <<>>, FALSE, "str"),
      Table(FALSE, <<>>, <<>>, TRUE, "nan") }

NoTable == Table(FALSE, <<>>, <<>>, FALSE, "none")

Index == 1..NumRows

MKey(fl, ds, c) == [filter |-> fl, dataset |-> ds, column |-> c]

Code(s) ==
    CASE s = "a" -> 1 [] s = "b_instFlux" -> 2
      [] s = "g" -> 10 [] s = "r" -> 20
      [] s = "ref" -> 100 [] s = "meas" -> 200 [] s = "forced_src" -> 300
      [] OTHER -> 0

Cell(t, k, r) ==
    IF k.column = ExtendednessCol THEN t.xdata[r]
    ELSE IF k.column = "b_instFlux" /\ t.bdata = "str" THEN Str
    ELSE IF k.column = "b_instFlux" /\ t.bdata = "nan" /\ r = 1 THEN NaN
    ELSE Num(1000 * r + Code(k.dataset) + Code(k.filter) + Code(k.column))

(* parq._colsFromDict: the product of the levels' values; a level the      *)
(* dictionary does not name (fl = None) stands for all its values.         *)
colsFromDict(t, cols, ds, fl) ==
    { MKey(x, ds, c) : x \in (IF fl = None THEN Range(t.filters) ELSE {fl}), c \in cols }

(* parq.toDataFrame: one bulk read returning every requested column, or    *)
(* raising when the read itself fails.  A flat table is read by column     *)
(* names, a hierarchical one by keys.                                      *)
toDataFrame(t, keys) ==
    IF t.readFails THEN Raise("IOError")
    ELSE IF t.multi
    THEN Ok([index |-> Index, levels |-> Range(t.levels),
             cols |-> [k \in keys |-> [r \in Index |-> Cell(t, k, r)]]])
    ELSE Ok([index |-> Index, levels |-> {"column"},
             cols |-> [c \in keys |-> [r \in Index |-> Cell(t, MKey(None, None, c), r)]]])

(***************************************************************************)
(* Functor                                                                 *)
(***************************************************************************)

(* Mutant: the first filter is taken for any dataset when the filter is unset. *)
multilevelColumnsAnyDataset(fs, f, t) ==
    IF ClassOf(f) = "Color"
    THEN Ok({MKey(Filt1, fs[f].dataset, ColOf(f)), MKey(Filt2, fs[f].dataset, ColOf(f))})
    ELSE IF Range(t.levels) # Range(columnLevels) THEN Raise("ValueError")
    ELSE IF ~columns(f).ok THEN columns(f)
    ELSE IF FiltOf(fs, f) = None
         THEN Ok(colsFromDict(t, columns(f).val, fs[f].dataset, t.filters[1]))
         ELSE Ok(colsFromDict(t, columns(f).val, fs[f].dataset, FiltOf(fs, f)))

(* Mutant: the table's levels are compared with the expected ones in order. *)
multilevelColumnsOrdered(fs, f, t) ==
    IF ClassOf(f) = "Color"
    THEN Ok({MKey(Filt1, fs[f].dataset, ColOf(f)), MKey(Filt2, fs[f].dataset, ColOf(f))})
    ELSE IF t.levels # columnLevels THEN Raise("ValueError")
    ELSE IF ~columns(f).ok THEN columns(f)
    ELSE IF FiltOf(fs, f) = None
         THEN IF "filter" \in Range(t.levels)
              THEN IF fs[f].dataset = "ref"
                   THEN Ok(colsFromDict(t, columns(f).val, fs[f].dataset, t.filters[1]))
                   ELSE Raise("ValueError")
              ELSE Ok(colsFromDict(t, columns(f).val, fs[f].dataset, None))
         ELSE Ok(colsFromDict(t, columns(f).val, fs[f].dataset, FiltOf(fs, f)))

(* Functor.multilevelColumns, and Color's override of it. *)
multilevelColumns(fs, f, t) ==
    IF ClassOf(f) = "Color"
    THEN Ok({MKey(Filt1, fs[f].dataset, ColOf(f)), MKey(Filt2, fs[f].dataset, ColOf(f))})
    ELSE IF Range(t.levels) # Range(columnLevels) THEN Raise("ValueError")
    ELSE IF ~columns(f).ok THEN columns(f)
    ELSE IF FiltOf(fs, f) = None
         THEN IF "filter" \in Range(t.levels)
              THEN IF fs[f].dataset = "ref"
                   THEN Ok(colsFromDict(t, columns(f).val, fs[f].dataset, t.filters[1]))
                   ELSE Raise("ValueError")
              ELSE Ok(colsFromDict(t, columns(f).val, fs[f].dataset, None))
         ELSE Ok(colsFromDict(t, columns(f).val, fs[f].dataset, FiltOf(fs, f)))

(* The label a key keeps once the levels outside dfLevels are dropped. *)
Label(f, k) == IF "filter" \in dfLevels(f) THEN <<k.filter, k.column>> ELSE k.column

(* Functor._setLevels *)
setLevels(f, df) ==
    LET labels == { Label(f, k) : k \in DOMAIN df.cols }
    IN [index |-> df.index, levels |-> dfLevels(f),
        cols |-> [l \in labels |-> df.cols[CHOOSE k \in DOMAIN df.cols : Label(f, k) = l]]]

(* The magnitude formula on one cell: -2.5*log10(x / fluxMag0), kept symbolic. *)
MagCell(x) == IF x.t = "num" THEN [t |-> "mag", v |-> x.v, w |-> 0] ELSE NaN

(* The difference of two magnitudes on one cell, kept symbolic. *)
DiffCell(m2, m1) ==
    IF m2.t = "mag" /\ m1.t = "mag" THEN [t |-> "color", v |-> m2.v, w |-> m1.v] ELSE NaN

HasStr(col) == \E r \in DOMAIN col : col[r].t = "str"

(* Mag._func on a frame whose columns are column names. *)
MagFunc(f, df) ==
    IF ColOf(f) \notin DOMAIN df.cols THEN Raise("KeyError")
    ELSE IF HasStr(df.cols[ColOf(f)]) THEN Raise("TypeError")
    ELSE Ok([r \in df.index |-> MagCell(df.cols[ColOf(f)][r])])

(* Color._func: needs a frame with the filter and column levels. *)
ColorFunc(f, df) ==
    IF df.levels # {"filter", "column"} THEN Raise("KeyError")
    ELSE IF {<<Filt2, ColOf(f)>>, <<Filt1, ColOf(f)>>} \subseteq DOMAIN df.cols
    THEN LET c2 == df.cols[<<Filt2, ColOf(f)>>]
             c1 == df.cols[<<Filt1, ColOf(f)>>]
         IN IF HasStr(c2) \/ HasStr(c1) THEN Raise("TypeError")
            ELSE Ok([r \in df.index |-> DiffCell(MagCell(c2[r]), MagCell(c1[r]))])
    ELSE Raise("KeyError")

(* The extendedness values are kept in tenths: the test x < 0.5. *)
Threshold == 5

(* The categories of the label column, by code. *)
categories == <<"galaxy", "star", "null">>

LabelCell(code) == [t |-> "label", v |-> code, w |-> 0]

(* Mutant: a value at the threshold counts as below it. *)
StarGalaxyFuncInclusive(f, df) ==
    IF ColOf(f) \notin DOMAIN df.cols THEN Raise("KeyError")
    ELSE IF HasStr(df.cols[ColOf(f)]) THEN Raise("TypeError")
    ELSE LET x == df.cols[ColOf(f)]
         IN Ok([r \in df.index |->
                  LabelCell(IF x[r] = NaN THEN 2
                            ELSE IF x[r].v <= Threshold THEN 1 ELSE 0)])

(* StarGalaxyLabeller._func: mask = x.isnull(); test = (x < 0.5).astype(int) *)
(* is 1 below the threshold and 0 otherwise (a missing value compares      *)
(* False); test.mask(mask, 2) puts 2 where x is missing; the codes are     *)
(* read in categories.  A column of non-numeric objects cannot be          *)
(* compared.                                                               *)
StarGalaxyFunc(f, df) ==
    IF ColOf(f) \notin DOMAIN df.cols THEN Raise("KeyError")
    ELSE IF HasStr(df.cols[ColOf(f)]) THEN Raise("TypeError")
    ELSE LET x == df.cols[ColOf(f)]
             mask == [r \in df.index |-> x[r] = NaN]
             test == [r \in df.index |-> IF x[r] # NaN /\ x[r].v < Threshold THEN 1 ELSE 0]
             masked == [r \in df.index |-> IF mask[r] THEN 2 ELSE test[r]]
         IN Ok([r \in df.index |-> LabelCell(masked[r])])

(* Functor._func and its overrides (the transform). *)
func(f, df) ==
    CASE ClassOf(f) = "Column" ->
           IF df.levels = {"column"} /\ ColOf(f) \in DOMAIN df.cols
           THEN Ok(df.cols[ColOf(f)]) ELSE Raise("KeyError")
      [] ClassOf(f) = "Mag" ->
           IF df.levels = {"column"} THEN MagFunc(f, df) ELSE Raise("KeyError")
      [] ClassOf(f) = "Color" -> ColorFunc(f, df)
      [] ClassOf(f) = "StarGalaxyLabeller" ->
           IF df.levels = {"column"} THEN StarGalaxyFunc(f, df) ELSE Raise("KeyError")
      [] OTHER -> Raise("NotImplementedError")

(* Mutant: the missing-value column is built without the frame's index. *)
failNoIndex(df) == [r \in 0..(Cardinality(df.index) - 1) |-> NaN]

(* Functor.fail *)
fail(df) == [r \in df.index |-> NaN]

(* Functor._dropna: Series.dropna *)
dropnaCol(vals) == [r \in { x \in DOMAIN vals : vals[x] # NaN } |-> vals[r]]

(* What a call hands back: it returned val or raised exc, after the bulk   *)
(* reads listed in reads (the column set each one requested).              *)
Returned(v, reads) == [outcome |-> "returned", exc |-> "", val |-> v, reads |-> reads]
Raised(e, reads) == [outcome |-> "raised", exc |-> e, val |-> {}, reads |-> reads]

(* Functor._get_cols, for a MultilevelParquetTable and for a flat table.    *)
(* (Its DeferredDatasetHandle branch, 191-194, only stops in the debugger.) *)
getCols(fs, f, t) ==
    LET cl == IF t.multi THEN multilevelColumns(fs, f, t) ELSE columns(f)
    IN IF ~cl.ok THEN Raised(cl.exc, <<>>)
       ELSE LET df == toDataFrame(t, cl.val)
            IN IF ~df.ok THEN Raised(df.exc, <<cl.val>>)
               ELSE Returned(IF t.multi THEN setLevels(f, df.val) ELSE df.val, <<cl.val>>)

(* Mutant: the transform's exception is not caught. *)
FunctorCallUncontained(fs, f, t, dropna) ==
    LET gc == getCols(fs, f, t)
    IN IF gc.outcome = "raised" THEN Raised("UnboundLocalError", gc.reads)
       ELSE LET fn == func(f, gc.val)
            IN IF ~fn.ok THEN Raised(fn.exc, gc.reads)
               ELSE Returned(IF dropna THEN dropnaCol(fn.val) ELSE fn.val, gc.reads)

(* Mutant: df is bound to an empty frame before the try, so a failed load  *)
(* is answered with an empty missing-value column.                         *)
FunctorCallEmptyFrame(fs, f, t, dropna) ==
    LET gc == getCols(fs, f, t)
    IN IF gc.outcome = "raised" THEN Returned(<<>>, gc.reads)
       ELSE LET fn == func(f, gc.val)
                vals == IF fn.ok THEN fn.val ELSE fail(gc.val)
            IN Returned(IF dropna THEN dropnaCol(vals) ELSE vals, gc.reads)

(* Mutant: rows with a missing value are dropped whatever dropna says. *)
FunctorCallAlwaysDrop(fs, f, t, dropna) ==
    LET gc == getCols(fs, f, t)
    IN IF gc.outcome = "raised" THEN Raised("UnboundLocalError", gc.reads)
       ELSE LET fn == func(f, gc.val)
                vals == IF fn.ok THEN fn.val ELSE fail(gc.val)
            IN Returned(dropnaCol(vals), gc.reads)

(* Functor.__call__.  When _get_cols raised, df was never bound and the    *)
(* handler's fail(df) raises UnboundLocalError in its turn.                *)
FunctorCall(fs, f, t, dropna) ==
    LET gc == getCols(fs, f, t)
    IN IF gc.outcome = "raised" THEN Raised("UnboundLocalError", gc.reads)
       ELSE LET fn == func(f, gc.val)
                vals == IF fn.ok THEN fn.val ELSE fail(gc.val)
            IN Returned(IF dropna THEN dropnaCol(vals) ELSE vals, gc.reads)

(* Mutant: the labeller passes the caller's dropna on. *)
LabellerCallPassesDropna(fs, f, t, dropna) == FunctorCall(fs, f, t, dropna)

(* Labeller.__call__: Functor.__call__ with dropna=False, whatever the     *)
(* caller gave.                                                            *)
LabellerCall(fs, f, t, dropna) == FunctorCall(fs, f, t, FALSE)

(***************************************************************************)
(* CompositeFunctor                                                        *)
(***************************************************************************)

(* A funcDict maps keys to functors; Python iterates it in insertion       *)
(* order, which the model takes as an input: a sequence listing the keys.  *)
FuncDicts == UNION { [ks -> FunctorIds] : ks \in SUBSET Keys }

Orders(fd) ==
    { o \in UNION { [1..n -> DOMAIN fd] : n \in {Cardinality(DOMAIN fd)} } :
        \A i, j \in DOMAIN o : i # j => o[i] # o[j] }

(* The first raising result of a sequence of results, if any. *)
FirstRaise(rs) ==
    LET bad == { i \in DOMAIN rs : ~rs[i].ok }
    IN IF bad = {} THEN Ok({})
       ELSE rs[CHOOSE i \in bad : \A j \in bad : i <= j]

(* CompositeFunctor.columns *)
compColumns(fd, order) ==
    LET rs == [i \in DOMAIN order |-> columns(fd[order[i]])]
    IN IF ~FirstRaise(rs).ok THEN FirstRaise(rs)
       ELSE Ok(UNION { rs[i].val : i \in DOMAIN rs })

(* Mutant: only the first child's columns are requested. *)
compMultilevelColumnsFirst(fs, fd, order, t) ==
    LET rs == [i \in DOMAIN order |-> multilevelColumns(fs, fd[order[i]], t)]
    IN IF ~FirstRaise(rs).ok THEN FirstRaise(rs)
       ELSE Ok(UNION { rs[i].val : i \in DOMAIN rs \cap {1} })

(* CompositeFunctor.multilevelColumns *)
compMultilevelColumns(fs, fd, order, t) ==
    LET rs == [i \in DOMAIN order |-> multilevelColumns(fs, fd[order[i]], t)]
    IN IF ~FirstRaise(rs).ok THEN FirstRaise(rs)
       ELSE Ok(UNION { rs[i].val : i \in DOMAIN rs })

(* df[keys]: the columns of df under the given keys. *)
Slice(df, keys) == [df EXCEPT !.cols = [k \in keys |-> df.cols[k]]]

Unbound == [bound |-> FALSE, index |-> {}, levels |-> {}, cols |-> <<>>]

(* The loop of CompositeFunctor.__call__ over a hierarchical table, from   *)
(* the i-th child on.  subdf is the loop's local variable: unbound before  *)
(* the first slice succeeds, and left as it was by an iteration whose      *)
(* slice raises, in which case the handler's fail(subdf) uses that value   *)
(* or raises UnboundLocalError.                                            *)
RECURSIVE valDictMulti(_, _, _, _, _, _, _, _)
valDictMulti(fs, fd, order, t, df, i, subdf, valDict) ==
    IF i > Len(order) THEN Ok(valDict)
    ELSE LET k == order[i]
             f == fd[k]
             mc == multilevelColumns(fs, f, t)
         IN IF mc.ok /\ mc.val \subseteq DOMAIN df.cols
            THEN LET sub == setLevels(f, Slice(df, mc.val))
                     fn == func(f, sub)
                     v == IF fn.ok THEN fn.val ELSE fail(sub)
                 IN valDictMulti(fs, fd, order, t, df, i + 1,
                                 [bound |-> TRUE, index |-> sub.index,
                                  levels |-> sub.levels, cols |-> sub.cols],
                                 valDict @@ (k :> v))
            ELSE IF subdf.bound
                 THEN valDictMulti(fs, fd, order, t, df, i + 1, subdf,
                                   valDict @@ (k :> fail(subdf)))
                 ELSE Raise("UnboundLocalError")

(* The dictionary comprehension of CompositeFunctor.__call__ over a flat   *)
(* table: every child's transform runs on the whole frame, uncontained.    *)
valDictFlat(fd, order, df) ==
    LET rs == [i \in DOMAIN order |-> func(fd[order[i]], df)]
    IN IF ~FirstRaise(rs).ok THEN FirstRaise(rs)
       ELSE Ok([k \in DOMAIN fd |-> func(fd[k], df).val])

(* pd.concat(valDict, axis=1): raises on an empty dictionary. *)
concat(valDict, index) ==
    IF DOMAIN valDict = {} THEN Raise("ValueError")
    ELSE Ok([index |-> index, cols |-> valDict])

(* Mutant: DataFrame.dropna(how='all'), a row goes only when every column *)
(* is missing in it.                                                      *)
dropnaDfAll(valDf) ==
    LET keep == { r \in valDf.index : \E k \in DOMAIN valDf.cols : valDf.cols[k][r] # NaN }
    IN [index |-> keep,
        cols |-> [k \in DOMAIN valDf.cols |-> [r \in keep |-> valDf.cols[k][r]]]]

(* DataFrame.dropna(how='any') *)
dropnaDf(valDf) ==
    LET keep == { r \in valDf.index : \A k \in DOMAIN valDf.cols : valDf.cols[k][r] # NaN }
    IN [index |-> keep,
        cols |-> [k \in DOMAIN valDf.cols |-> [r \in keep |-> valDf.cols[k][r]]]]

(* Mutant: the rows with missing values stay whatever dropna says. *)
CompositeCallKeepsRows(fs, fd, order, t, dropna) ==
    LET cl == IF t.multi THEN compMultilevelColumns(fs, fd, order, t)
              ELSE compColumns(fd, order)
    IN IF ~cl.ok THEN Raised(cl.exc, <<>>)
       ELSE LET df == toDataFrame(t, cl.val)
            IN IF ~df.ok THEN Raised(df.exc, <<cl.val>>)
               ELSE LET vd == IF t.multi
                              THEN valDictMulti(fs, fd, order, t, df.val, 1, Unbound, <<>>)
                              ELSE valDictFlat(fd, order, df.val)
                    IN IF ~vd.ok THEN Raised(vd.exc, <<cl.val>>)
                       ELSE LET valDf == concat(vd.val, df.val.index)
                            IN IF ~valDf.ok THEN Raised(valDf.exc, <<cl.val>>)
                               ELSE Returned(IF FALSE THEN dropnaDf(valDf.val)
                                             ELSE valDf.val, <<cl.val>>)

(* CompositeFunctor.__call__ on a hierarchical or a flat table.  (Its      *)
(* DeferredDatasetHandle branch, 315-316, is unfinished in the source.)    *)
(* The print-and-reraise of a TypeError from pd.concat (335-337) needs a   *)
(* transform that returns something other than a column and is not         *)
(* modelled.                                                               *)
CompositeCall(fs, fd, order, t, dropna) ==
    LET cl == IF t.multi THEN compMultilevelColumns(fs, fd, order, t)
              ELSE compColumns(fd, order)
    IN IF ~cl.ok THEN Raised(cl.exc, <<>>)
       ELSE LET df == toDataFrame(t, cl.val)
            IN IF ~df.ok THEN Raised(df.exc, <<cl.val>>)
               ELSE LET vd == IF t.multi
                              THEN valDictMulti(fs, fd, order, t, df.val, 1, Unbound, <<>>)
                              ELSE valDictFlat(fd, order, df.val)
                    IN IF ~vd.ok THEN Raised(vd.exc, <<cl.val>>)
                       ELSE LET valDf == concat(vd.val, df.val.index)
                            IN IF ~valDf.ok THEN Raised(valDf.exc, <<cl.val>>)
                               ELSE Returned(IF dropna THEN dropnaDf(valDf.val)
                                             ELSE valDf.val, <<cl.val>>)

(* Mutant: the setter passes over the children that have a filter. *)
compSetFiltUnsetOnly(fs, cs, c, v) ==
    LET children == { cs[c].funcDict[k] : k \in DOMAIN cs[c].funcDict }
    IN [functors |-> IF v # None
                     THEN [f \in FunctorIds |->
                              IF f \in children /\ FiltOf(fs, f) = None
                              THEN SetFilt(fs, f, v)[f] ELSE fs[f]]
                     ELSE fs,
        composites |-> [cs EXCEPT ![c].filt = v]]

(* Mutant: the setter hands None on to the children as well. *)
compSetFiltCascadesNone(fs, cs, c, v) ==
    LET children == { cs[c].funcDict[k] : k \in DOMAIN cs[c].funcDict }
    IN [functors |-> [f \in FunctorIds |->
                         IF f \in children THEN SetFilt(fs, f, v)[f] ELSE fs[f]],
        composites |-> [cs EXCEPT ![c].filt = v]]

(* The setter of CompositeFunctor.filt: the functors and composites after   *)
(* c.filt = v.                                                             *)
compSetFilt(fs, cs, c, v) ==
    LET children == { cs[c].funcDict[k] : k \in DOMAIN cs[c].funcDict }
    IN [functors |-> IF v # None
                     THEN [f \in FunctorIds |->
                              IF f \in children THEN SetFilt(fs, f, v)[f] ELSE fs[f]]
                     ELSE fs,
        composites |-> [cs EXCEPT ![c].filt = v]]

(* Mutant: on a key both have, the entry of fd stays. *)
dictUpdateKeepOld(fd, new) ==
    [k \in DOMAIN fd \cup DOMAIN new |-> IF k \in DOMAIN fd THEN fd[k] ELSE new[k]]

(* dict.update: the entries of new replace or extend those of fd. *)
dictUpdate(fd, new) ==
    [k \in DOMAIN fd \cup DOMAIN new |-> IF k \in DOMAIN new THEN new[k] ELSE fd[k]]

(* Mutant: update merges and does not assign the stored filter again. *)
compUpdateNoReapply(fs, cs, c, new) ==
    [functors |-> fs,
     composites |-> [cs EXCEPT ![c].funcDict = dictUpdate(cs[c].funcDict, new)]]

(* CompositeFunctor.update with a dictionary or a composite's funcDict:    *)
(* the merge, then the stored filter assigned again when it is not None.   *)
compUpdate(fs, cs, c, new) ==
    LET merged == [cs EXCEPT ![c].funcDict = dictUpdate(cs[c].funcDict, new)]
    IN IF cs[c].filt # None THEN compSetFilt(fs, merged, c, cs[c].filt)
       ELSE [functors |-> fs, composites |-> merged]

(***************************************************************************)
(* Strings are sequences of characters.                                    *)
(***************************************************************************)

(* str.startswith *)
startswith(s, p) == Len(p) <= Len(s) /\ SubSeq(s, 1, Len(p)) = p

(* str.endswith *)
endswith(s, p) == Len(p) <= Len(s) /\ SubSeq(s, Len(s) - Len(p) + 1, Len(s)) = p

(* str.replace(old, new): every occurrence of old, found from left to      *)
(* right without overlap, becomes new; an empty old matches before every   *)
(* character and at the end.                                               *)
RECURSIVE replace(_, _, _)
replace(s, old, new) ==
    IF old = <<>>
    THEN IF s = <<>> THEN new ELSE new \o <<Head(s)>> \o replace(Tail(s), old, new)
    ELSE IF Len(s) < Len(old) THEN s
    ELSE IF startswith(s, old)
         THEN new \o replace(SubSeq(s, Len(old) + 1, Len(s)), old, new)
         ELSE <<Head(s)>> \o replace(Tail(s), old, new)

(* The renameRules argument: None, or a list of (old, new) pairs. *)
NoRules == [none |-> TRUE, list |-> <<>>]
RuleList(l) == [none |-> FALSE, list |-> l]

(* The loop of renameCol from rule i on. *)
RECURSIVE renameColFrom(_, _, _)
renameColFrom(col, rules, i) ==
    IF i > Len(rules) THEN col
    ELSE renameColFrom(IF startswith(col, rules[i][1])
                       THEN replace(col, rules[i][1], rules[i][2]) ELSE col,
                       rules, i + 1)

(* CompositeFunctor.renameCol *)
renameCol(col, renameRules) ==
    IF renameRules.none THEN col ELSE renameColFrom(col, renameRules.list, 1)

(***************************************************************************)
(* Functors made from a YAML definition.  They are new objects, written as *)
(* records of their class and attributes.                                  *)
(***************************************************************************)
InstFluxSuffix == <<"_", "i", "n", "s", "t", "F", "l", "u", "x">>

(* fluxName *)
fluxName(col) == IF endswith(col, InstFluxSuffix) THEN col ELSE col \o InstFluxSuffix

(* A keyword argument's value, or the default when it is not given. *)
KwOr(kw, key, default) == IF key \in DOMAIN kw THEN kw[key] ELSE default

(* Functor.__init__(filt=None, dataset=None, noDup=None) under a class. *)
NewFunctor(class, col, kw) ==
    [class |-> class, col |-> col, filt |-> KwOr(kw, "filt", None),
     dataset |-> IF KwOr(kw, "dataset", None) # None THEN kw["dataset"]
                 ELSE IF class = "Mag" THEN "meas" ELSE "ref"]

(* pythonType called with the positionals args and the keywords kw, for   *)
(* the types Column(col, ...) and Mag(col, calib=None, ...), which pass    *)
(* their other keywords on to Functor: a missing or surplus positional or  *)
(* an unknown keyword is a TypeError; a calib that is a string has no      *)
(* getFluxMag0.                                                            *)
construct(type, args, kw) ==
    CASE type = "Column" ->
           IF Len(args) # 1 \/ ~(DOMAIN kw \subseteq {"filt", "dataset", "noDup"})
           THEN Raise("TypeError")
           ELSE Ok(NewFunctor("Column", args[1], kw))
      [] type = "Mag" ->
           IF Len(args) \notin {1, 2}
                 \/ ~(DOMAIN kw \subseteq {"filt", "dataset", "noDup", "calib"})
                 \/ (Len(args) = 2 /\ "calib" \in DOMAIN kw)
           THEN Raise("TypeError")
           ELSE IF Len(args) = 2 \/ "calib" \in DOMAIN kw THEN Raise("AttributeError")
           ELSE Ok(NewFunctor("Mag", fluxName(args[1]), kw))
      [] OTHER -> Raise("ImportError")

(* The value of an 'args' entry: one bare string, or a list of strings. *)
BareArg(str) == [str |-> str, list |-> <<>>]
ListArgs(list) == [str |-> <<>>, list |-> list]

(* An initDict: the type name under 'functor', the optional 'args' entry   *)
(* (a list, or one bare string) and the entries that remain.               *)
InitDict(type, hasArgs, bare, args, rest) ==
    [functor |-> type, hasArgs |-> hasArgs, bare |-> bare, args |-> args, rest |-> rest]

(* The dictionary after pop(typeKey) and pop('args'). *)
popped(initDict) == InitDict(None, FALSE, FALSE, ListArgs(<<>>), initDict.rest)

(* What init_fromDict hands back: the element or the exception, the parts  *)
(* of the message the exception carries (name, pythonType.__name__, args), *)
(* and the caller's dictionary as the call leaves it.                      *)
Built(r, message, passed) ==
    [ok |-> r.ok, exc |-> r.exc, val |-> r.val, message |-> message, passed |-> passed]

NoMessage == [name |-> <<>>, type |-> "", args |-> <<>>]

(* Mutant: the pops are made on the caller's dictionary. *)
init_fromDictNoCopy(initDict, nm) ==
    IF initDict.functor \notin {"Column", "Mag"}
    THEN Built(Raise("ImportError"), NoMessage, popped(initDict))
    ELSE LET args == IF ~initDict.hasArgs THEN <<>>
                     ELSE IF initDict.bare THEN <<initDict.args.str>>
                     ELSE initDict.args.list
             element == construct(initDict.functor, args, initDict.rest)
         IN Built(element,
                  IF element.ok THEN NoMessage
                  ELSE [name |-> nm, type |-> initDict.functor, args |-> args],
                  popped(initDict))

(* init_fromDict: the dictionary is copied, the type popped from the copy  *)
(* and imported, 'args' popped (a bare string becomes a one-element list), *)
(* and the entries that remain are passed as keyword arguments; an         *)
(* exception of the constructor is raised again under its own type with    *)
(* the message of line 45.  A type that cannot be imported fails before    *)
(* the try.                                                                *)
init_fromDict(initDict, nm) ==
    IF initDict.functor \notin {"Column", "Mag"}
    THEN Built(Raise("ImportError"), NoMessage, initDict)
    ELSE LET args == IF ~initDict.hasArgs THEN <<>>
                     ELSE IF initDict.bare THEN <<initDict.args.str>>
                     ELSE initDict.args.list
             element == construct(initDict.functor, args, initDict.rest)
         IN Built(element,
                  IF element.ok THEN NoMessage
                  ELSE [name |-> nm, type |-> initDict.functor, args |-> args],
                  initDict)

(* An optional list of the definition: absent, or the list. *)
Missing == [none |-> TRUE, list |-> <<>>]
Listed(l) == [none |-> FALSE, list |-> l]

(* The loop over translationDefinition['funcs'].items(). *)
RECURSIVE funcsFrom(_, _, _)
funcsFrom(items, i, funcs) ==
    IF i > Len(items) THEN Ok(funcs)
    ELSE LET element == init_fromDict(items[i][2], items[i][1])
         IN IF ~element.ok THEN Raise(element.exc)
            ELSE funcsFrom(items, i + 1,
                           dictUpdate(funcs, [k \in {items[i][1]} |-> element.val]))

(* Mutant: the column functor is made for the renamed name. *)
RECURSIVE flagsFromRenamed(_, _, _, _, _)
flagsFromRenamed(flags, renameRules, ds, i, funcs) ==
    IF i > Len(flags) THEN funcs
    ELSE flagsFromRenamed(flags, renameRules, ds, i + 1,
             dictUpdate(funcs, [k \in {renameCol(flags[i], renameRules)} |->
                                  NewFunctor("Column", renameCol(flags[i], renameRules),
                                             [x \in {"dataset"} |-> ds])]))

(* The loops over refFlags and flags:                                      *)
(* funcs[cls.renameCol(flag, renameRules)] = Column(flag, dataset=ds).     *)
RECURSIVE flagsFrom(_, _, _, _, _)
flagsFrom(flags, renameRules, ds, i, funcs) ==
    IF i > Len(flags) THEN funcs
    ELSE flagsFrom(flags, renameRules, ds, i + 1,
             dictUpdate(funcs, [k \in {renameCol(flags[i], renameRules)} |->
                                  NewFunctor("Column", flags[i],
                                             [x \in {"dataset"} |-> ds])]))

(* CompositeFunctor.from_yaml: the composite made of the dictionary, with  *)
(* no filter (no keyword is passed on).                                    *)
from_yaml(td) ==
    LET declared == funcsFrom(td.funcs, 1, <<>>)
    IN IF ~declared.ok THEN Raise(declared.exc)
       ELSE LET withRef == IF td.refFlags.none THEN declared.val
                           ELSE flagsFrom(td.refFlags.list, td.flag_rename_rules, "ref",
                                          1, declared.val)
                withMeas == IF td.flags.none THEN withRef
                            ELSE flagsFrom(td.flags.list, td.flag_rename_rules, "meas",
                                           1, withRef)
            IN Ok([funcDict |-> withMeas, filt |-> None])

(***************************************************************************)
(* CustomFunctor and mag_aware_eval.  The regular expressions are matched  *)
(* character by character.                                                 *)
(***************************************************************************)
Letters ==
    { "a", "b", "c", "d", "e", "f", "g", "h", "i", "j", "k", "l", "m", "n", "o", "p", "q", "r", "s", "t", "u", "v", "w", "x", "y", "z",
      "A", "B", "C", "D", "E", "F", "G", "H", "I", "J", "K", "L", "M", "N", "O", "P", "Q", "R", "S", "T", "U", "V", "W", "X", "Y", "Z",
      "_" }
Digits == { "0", "1", "2", "3", "4", "5", "6", "7", "8", "9" }

(* The classes [a-zA-Z_], \w and \s. *)
IsLetter(c) == c \in Letters
IsWord(c) == c \in Letters \cup Digits
IsSpace(c) == c = " "

(* The end of the longest run of characters of a class that starts at i    *)
(* (i - 1 when there is none): a greedy X*.                                *)
RECURSIVE RunEnd(_, _, _)
RunEnd(s, i, class) ==
    IF i <= Len(s) /\ ((class = "letter" /\ IsLetter(s[i]))
                        \/ (class = "word" /\ IsWord(s[i]))
                        \/ (class = "space" /\ IsSpace(s[i])))
    THEN RunEnd(s, i + 1, class) ELSE i - 1

(* re.findall(r'[a-zA-Z_]+', s), from position i on. *)
RECURSIVE findallLetters(_, _)
findallLetters(s, i) ==
    IF i > Len(s) THEN <<>>
    ELSE IF IsLetter(s[i])
         THEN <<SubSeq(s, i, RunEnd(s, i, "letter"))>>
                 \o findallLetters(s, RunEnd(s, i, "letter") + 1)
         ELSE findallLetters(s, i + 1)

MagOpen == <<"m", "a", "g", "(">>

(* A match of mag\(\s*(\w+)\s*\) (spaces allowed) or of mag\((\w+)\) at  *)
(* position i: whether there is one, the group and the last position.  The *)
(* classes are disjoint, so the greedy match is the only one.              *)
matchMag(s, i, spaces) ==
    LET a == i + Len(MagOpen)
        b == IF spaces THEN RunEnd(s, a, "space") + 1 ELSE a
        c == RunEnd(s, b, "word")
        d == IF spaces THEN RunEnd(s, c + 1, "space") + 1 ELSE c + 1
    IN IF /\ i + Len(MagOpen) - 1 <= Len(s)
          /\ SubSeq(s, i, i + Len(MagOpen) - 1) = MagOpen
          /\ c >= b
          /\ d <= Len(s)
          /\ s[d] = ")"
       THEN [ok |-> TRUE, group |-> SubSeq(s, b, c), end |-> d]
       ELSE [ok |-> FALSE, group |-> <<>>, end |-> i]

(* re.findall(r'mag\(\s*(\w+)\s*\)', s), from position i on. *)
RECURSIVE findallMag(_, _)
findallMag(s, i) ==
    IF i > Len(s) THEN <<>>
    ELSE LET m == matchMag(s, i, TRUE)
         IN IF m.ok THEN <<m.group>> \o findallMag(s, m.end + 1)
            ELSE findallMag(s, i + 1)

(* re.sub(r'mag\((\w+)\)', r'-2.5*log(\g<1>suffix)/log(10)', s), from i on. *)
RECURSIVE subMag(_, _, _)
subMag(s, i, suffix) ==
    IF i > Len(s) THEN <<>>
    ELSE LET m == matchMag(s, i, FALSE)
         IN IF m.ok
            THEN <<"-", "2", ".", "5", "*", "l", "o", "g", "(">> \o m.group \o suffix
                   \o <<")", "/", "l", "o", "g", "(", "1", "0", ")">> \o subMag(s, m.end + 1, suffix)
            ELSE <<s[i]>> \o subMag(s, i + 1, suffix)

MagName == <<"m", "a", "g">>

(* CustomFunctor._ignore_words *)
ignore_words == { <<"m", "a", "g">>, <<"s", "i", "n">>, <<"c", "o", "s">>,
                  <<"e", "x", "p">>, <<"l", "o", "g">>, <<"s", "q", "r", "t">> }

(* The loop of CustomFunctor.columns over flux_cols, from entry i on: the  *)
(* lists cols and not_a_col it leaves.                                     *)
RECURSIVE fluxLoop(_, _, _, _)
fluxLoop(flux_cols, i, cols, not_a_col) ==
    IF i > Len(flux_cols) THEN [cols |-> cols, not_a_col |-> not_a_col]
    ELSE IF ~endswith(flux_cols[i], InstFluxSuffix)
         THEN fluxLoop(flux_cols, i + 1, Append(cols, flux_cols[i] \o InstFluxSuffix),
                       Append(not_a_col, flux_cols[i]))
         ELSE fluxLoop(flux_cols, i + 1, Append(cols, flux_cols[i]), not_a_col)

(* CustomFunctor.columns, as the set its list holds. *)
customColumns(expr) ==
    LET flux_cols == findallMag(expr, 1)
        words == findallLetters(expr, 1)
        cols == SelectSeq(words, LAMBDA c : c \notin ignore_words)
        loop == fluxLoop(flux_cols, 1, cols, <<>>)
    IN { c \in Range(loop.cols) : c \notin Range(loop.not_a_col) }

(* The names an expression refers to, from position i on, as pandas reads  *)
(* them: a run of word characters that starts with a letter is a name, a   *)
(* function call when "(" follows it; a run that starts with a digit is a  *)
(* number.                                                                 *)
RECURSIVE exprNames(_, _)
exprNames(s, i) ==
    IF i > Len(s) THEN {}
    ELSE LET e == RunEnd(s, i, "word")
         IN IF IsLetter(s[i])
            THEN {[name |-> SubSeq(s, i, e), called |-> e < Len(s) /\ s[e + 1] = "("]}
                    \cup exprNames(s, e + 1)
            ELSE IF IsWord(s[i]) THEN exprNames(s, e + 1)
            ELSE exprNames(s, i + 1)

(* The functions DataFrame.eval knows, of those the expressions use. *)
MathFunctions == ignore_words \ {MagName}

(* df.eval(expr, truediv=True): raises on a call of a function it does not *)
(* know and on a name that is not a column; the value is kept symbolic.    *)
dfEval(df, expr) ==
    IF \E n \in exprNames(expr, 1) : n.called /\ n.name \notin MathFunctions
    THEN Raise("ValueError")
    ELSE IF \E n \in exprNames(expr, 1) : ~n.called /\ n.name \notin df.columns
    THEN Raise("UndefinedVariableError")
    ELSE Ok([expr |-> expr, index |-> df.index])

(* Mutant: the flux-suffixed rewrite is tried first, the literal one after. *)
mag_aware_evalSuffixFirst(df, expr) ==
    LET first == subMag(expr, 1, InstFluxSuffix)
        second == subMag(expr, 1, <<>>)
    IN IF dfEval(df, first).ok THEN Returned(dfEval(df, first).val, <<first>>)
       ELSE IF dfEval(df, second).ok
            THEN Returned(dfEval(df, second).val, <<first, second>>)
            ELSE Raised(dfEval(df, second).exc, <<first, second>>)

(* mag_aware_eval: what it hands back and, in order, the expressions it    *)
(* gave to df.eval.                                                        *)
mag_aware_eval(df, expr) ==
    LET first == subMag(expr, 1, <<>>)
        second == subMag(expr, 1, InstFluxSuffix)
    IN IF dfEval(df, first).ok THEN Returned(dfEval(df, first).val, <<first>>)
       ELSE IF dfEval(df, second).ok
            THEN Returned(dfEval(df, second).val, <<first, second>>)
            ELSE Raised(dfEval(df, second).exc, <<first, second>>)

(* Mutant: a shortname met again keeps the functor it already has. *)
RECURSIVE dictFromListFirst(_, _, _)
dictFromListFirst(funcs, i, fd) ==
    IF i > Len(funcs) THEN fd
    ELSE dictFromListFirst(funcs, i + 1,
             dictUpdateKeepOld(fd, [k \in {shortname(funcs[i])} |-> funcs[i]]))

(* {f.shortname: f for f in funcs}: the entries are made in list order. *)
RECURSIVE dictFromList(_, _, _)
dictFromList(funcs, i, fd) ==
    IF i > Len(funcs) THEN fd
    ELSE dictFromList(funcs, i + 1,
             dictUpdate(fd, [k \in {shortname(funcs[i])} |-> funcs[i]]))

(* CompositeFunctor.__init__ with a sequence of functors, for the object   *)
(* named c: the dictionary by shortname, _filt = None, then                *)
(* Functor.__init__ assigns self.filt = filt through the setter.           *)
compInit(fs, cs, c, funcs, filt) ==
    compSetFilt(fs, [cs EXCEPT ![c] = [funcDict |-> dictFromList(funcs, 1, <<>>),
                                       filt |-> None]], c, filt)

(***************************************************************************)
(* State and actions                                                       *)
(***************************************************************************)
(* The record of a call: what was called with which arguments and, for an *)
(* evaluation made a second time, what the first one handed back.          *)
NoCall == [op |-> "none", target |-> "", table |-> NoTable, dropna |-> FALSE,
           order |-> <<>>, arg |-> None, kind |-> "", new |-> <<>>,
           repeat |-> FALSE, first |-> <<>>, args |-> <<>>]

Snapshot == [functors |-> functors, composites |-> composites]

Functor(fl, ds) == [filt |-> fl, dataset |-> ds]
Composite(fd, fl) == [funcDict |-> fd, filt |-> fl]

(* The functors as constructed: the filter given to the constructor or     *)
(* None, the dataset given or the class default.                           *)
InitFunctors ==
    { [f \in FunctorIds |->
          CASE f = "column" -> Functor(fl1, ds1)
            [] f = "mag" -> Functor(fl2, defaultDataset(f))
            [] OTHER -> Functor(None, defaultDataset(f))] :
      fl1 \in FiltOrNone, ds1 \in {"ref", "meas"}, fl2 \in FiltOrNone }

Init ==
    /\ functors \in InitFunctors
    /\ composites \in { [c \in CompositeIds |->
                           IF c = "c1" THEN Composite(fd, None)
                           ELSE Composite([k \in Keys |-> IF k = "x" THEN "color" ELSE "mag"], None)] :
                        fd \in FuncDicts }
    /\ prev = Snapshot
    /\ call = NoCall
    /\ outcome = "none"
    /\ exc = ""
    /\ result = {}
    /\ readLog = <<>>
    /\ nops = 0

Deliver(r) ==
    /\ outcome' = r.outcome
    /\ exc' = r.exc
    /\ result' = r.val
    /\ readLog' = r.reads

(* Calls are synchronous: the caller makes one call, then takes what it     *)
(* handed back (Return) before making the next.                            *)
Idle == call.op = "none"

Return ==
    /\ ~Idle
    /\ call' = NoCall
    /\ outcome' = "none"
    /\ exc' = ""
    /\ result' = {}
    /\ readLog' = <<>>
    /\ prev' = Snapshot
    /\ UNCHANGED <<functors, composites, nops>>

(* f.multilevelColumns(t), called on a hierarchical table. *)
Resolve(f, t) ==
    /\ Idle
    /\ t.multi
    /\ call' = [NoCall EXCEPT !.op = "multilevelColumns", !.target = f, !.table = t]
    /\ LET mc == multilevelColumns(functors, f, t)
       IN Deliver(IF mc.ok THEN Returned(mc.val, <<>>) ELSE Raised(mc.exc, <<>>))
    /\ prev' = Snapshot
    /\ UNCHANGED <<functors, composites, nops>>

(* Mutant: a functor called on a hierarchical table with its filter unset  *)
(* keeps the table's first filter as its own.                              *)
selfAfterCallKeepsFilter(fs, f, t) ==
    IF t.multi /\ FiltOf(fs, f) = None /\ Len(t.filters) > 0
    THEN SetFilt(fs, f, t.filters[1]) ELSE fs

(* The functors' attributes after f(t): __call__, _get_cols,               *)
(* multilevelColumns, _setLevels, _func, fail and _dropna assign no        *)
(* attribute of self (_setLevels assigns df.columns, on the frame the call *)
(* has just loaded).                                                       *)
selfAfterCall(fs, f, t) == fs

(* The same for a composite's call, which reads funcDict and calls its     *)
(* children's multilevelColumns, _setLevels, _func and fail.               *)
selfAfterCompositeCall(fs, cs, c, t) == [functors |-> fs, composites |-> cs]

(* f(t, dropna=dropna) *)
Evaluate(f, t, dropna) ==
    /\ Idle
    /\ call' = [NoCall EXCEPT !.op = "Functor.__call__", !.target = f, !.table = t,
                              !.dropna = dropna]
    /\ Deliver(FunctorCall(functors, f, t, dropna))
    /\ prev' = Snapshot
    /\ functors' = selfAfterCall(functors, f, t)
    /\ UNCHANGED <<composites, nops>>

(* c(t, dropna=dropna) *)
EvaluateComposite(c, order, t, dropna) ==
    /\ Idle
    /\ order \in Orders(composites[c].funcDict)
    /\ call' = [NoCall EXCEPT !.op = "CompositeFunctor.__call__", !.target = c, !.table = t,
                              !.dropna = dropna, !.order = order]
    /\ Deliver(CompositeCall(functors, composites[c].funcDict, order, t, dropna))
    /\ prev' = Snapshot
    /\ functors' = selfAfterCompositeCall(functors, composites, c, t).functors
    /\ composites' = selfAfterCompositeCall(functors, composites, c, t).composites
    /\ UNCHANGED nops

(* The caller makes the evaluation it has just made once more, with the    *)
(* same arguments on the same table; a dictionary that was not changed     *)
(* iterates in the same order.                                             *)
EvaluateAgain ==
    /\ call.op \in {"Functor.__call__", "CompositeFunctor.__call__"}
    /\ ~call.repeat
    /\ call' = [call EXCEPT !.repeat = TRUE,
                            !.first = [outcome |-> outcome, exc |-> exc, val |-> result]]
    /\ IF call.op = "Functor.__call__"
       THEN /\ Deliver(FunctorCall(functors, call.target, call.table, call.dropna))
            /\ functors' = selfAfterCall(functors, call.target, call.table)
            /\ UNCHANGED composites
       ELSE /\ Deliver(CompositeCall(functors, composites[call.target].funcDict,
                                     call.order, call.table, call.dropna))
            /\ functors' = selfAfterCompositeCall(functors, composites, call.target,
                                                  call.table).functors
            /\ composites' = selfAfterCompositeCall(functors, composites, call.target,
                                                    call.table).composites
    /\ UNCHANGED <<prev, nops>>

(* The dictionaries handed to update. *)
UpdateDicts == { fd \in FuncDicts : Cardinality(DOMAIN fd) = 1 }

(* f.filt = v on a functor. *)
AssignFilt(f, v) ==
    /\ nops < MaxOps
    /\ call' = [NoCall EXCEPT !.op = "Functor.filt", !.target = f, !.arg = v]
    /\ functors' = SetFilt(functors, f, v)
    /\ Deliver(Returned({}, <<>>))
    /\ prev' = Snapshot
    /\ nops' = nops + 1
    /\ UNCHANGED composites

(* c.filt = v on a composite. *)
AssignCompositeFilt(c, v) ==
    /\ nops < MaxOps
    /\ call' = [NoCall EXCEPT !.op = "CompositeFunctor.filt", !.target = c, !.arg = v]
    /\ functors' = compSetFilt(functors, composites, c, v).functors
    /\ composites' = compSetFilt(functors, composites, c, v).composites
    /\ Deliver(Returned({}, <<>>))
    /\ prev' = Snapshot
    /\ nops' = nops + 1

(* c.update(new) with new a dictionary. *)
UpdateDict(c, new) ==
    /\ nops < MaxOps
    /\ call' = [NoCall EXCEPT !.op = "update", !.target = c, !.kind = "dict", !.new = new]
    /\ functors' = compUpdate(functors, composites, c, new).functors
    /\ composites' = compUpdate(functors, composites, c, new).composites
    /\ Deliver(Returned({}, <<>>))
    /\ prev' = Snapshot
    /\ nops' = nops + 1

(* c.update(other) with other a CompositeFunctor. *)
UpdateComposite(c, other) ==
    /\ nops < MaxOps
    /\ call' = [NoCall EXCEPT !.op = "update", !.target = c, !.kind = "composite",
                              !.arg = other, !.new = composites[other].funcDict]
    /\ functors' = compUpdate(functors, composites, c, composites[other].funcDict).functors
    /\ composites' = compUpdate(functors, composites, c, composites[other].funcDict).composites
    /\ Deliver(Returned({}, <<>>))
    /\ prev' = Snapshot
    /\ nops' = nops + 1

(* c.update(new) with new neither a dictionary nor a composite. *)
UpdateOther(c) ==
    /\ nops < MaxOps
    /\ call' = [NoCall EXCEPT !.op = "update", !.target = c, !.kind = "other"]
    /\ Deliver(Raised("TypeError", <<>>))
    /\ prev' = Snapshot
    /\ nops' = nops + 1
    /\ UNCHANGED <<functors, composites>>

(* c = CompositeFunctor(funcs), funcs a sequence of functors (no filt      *)
(* keyword: Functor.__init__ gets its default, None).                      *)
Construct(c, funcs) ==
    /\ Idle
    /\ call' = [NoCall EXCEPT !.op = "CompositeFunctor.__init__", !.target = c,
                              !.args = [funcs |-> funcs]]
    /\ functors' = compInit(functors, composites, c, funcs, None).functors
    /\ composites' = compInit(functors, composites, c, funcs, None).composites
    /\ Deliver(Returned({}, <<>>))
    /\ prev' = Snapshot
    /\ UNCHANGED nops

(* CompositeFunctor.renameCol(col, renameRules) *)
RenameCol(col, renameRules) ==
    /\ Idle
    /\ call' = [NoCall EXCEPT !.op = "renameCol",
                              !.args = [col |-> col, renameRules |-> renameRules]]
    /\ Deliver(Returned(renameCol(col, renameRules), <<>>))
    /\ prev' = Snapshot
    /\ UNCHANGED <<functors, composites, nops>>

(* CompositeFunctor.from_yaml(translationDefinition) *)
FromYaml(td) ==
    /\ Idle
    /\ call' = [NoCall EXCEPT !.op = "from_yaml", !.args = td]
    /\ LET r == from_yaml(td)
       IN Deliver(IF r.ok THEN Returned(r.val, <<>>) ELSE Raised(r.exc, <<>>))
    /\ prev' = Snapshot
    /\ UNCHANGED <<functors, composites, nops>>

(* CustomFunctor(expr).columns *)
CustomColumns(expr) ==
    /\ Idle
    /\ call' = [NoCall EXCEPT !.op = "CustomFunctor.columns", !.args = [expr |-> expr]]
    /\ Deliver(Returned(customColumns(expr), <<>>))
    /\ prev' = Snapshot
    /\ UNCHANGED <<functors, composites, nops>>

(* mag_aware_eval(df, expr); the log holds the expressions given to        *)
(* df.eval.                                                                *)
MagAwareEval(df, expr) ==
    /\ Idle
    /\ call' = [NoCall EXCEPT !.op = "mag_aware_eval", !.args = [df |-> df, expr |-> expr]]
    /\ Deliver(mag_aware_eval(df, expr))
    /\ prev' = Snapshot
    /\ UNCHANGED <<functors, composites, nops>>

(* init_fromDict(initDict, name=nm); what is kept of the call is the       *)
(* element, the message parts and the dictionary the caller still holds.   *)
InitFromDict(initDict, nm) ==
    /\ Idle
    /\ call' = [NoCall EXCEPT !.op = "init_fromDict",
                              !.args = [initDict |-> initDict, name |-> nm]]
    /\ LET r == init_fromDict(initDict, nm)
           kept == [element |-> r.val, message |-> r.message, passed |-> r.passed]
       IN Deliver(IF r.ok THEN Returned(kept, <<>>)
                  ELSE [Raised(r.exc, <<>>) EXCEPT !.val = kept])
    /\ prev' = Snapshot
    /\ UNCHANGED <<functors, composites, nops>>

(***************************************************************************)
(* LocalPhotometry.  The inputs are whole numbers and the arithmetic is    *)
(* exact.  A value that is not a whole number is kept by its parts:        *)
(*   [sq |-> s]            the non-negative root of s (np.hypot),          *)
(*   [sq |-> s, den |-> d] 2.5 / ln(10) times the root of s, over d,       *)
(*   [flux |-> x]          -2.5 log10(x) + logNJanskyToAB.                 *)
(***************************************************************************)
hypot(a, b) == [sq |-> a * a + b * b]

instFluxToNanojansky(instFlux, localCalib) == instFlux * localCalib

instFluxErrToNanojanskyErr(instFlux, instFluxErr, localCalib, localCalibErr) ==
    hypot(instFluxErr * localCalib, instFlux * localCalibErr)

instFluxToMagnitude(instFlux, localCalib) ==
    [flux |-> instFluxToNanojansky(instFlux, localCalib)]

(* 2.5 / np.log(10) * err / self.instFluxToNanojansky(instFlux, instFluxErr) *)
instFluxErrToMagnitudeErr(instFlux, instFluxErr, localCalib, localCalibErr) ==
    LET err == instFluxErrToNanojanskyErr(instFlux, instFluxErr, localCalib, localCalibErr)
    IN [sq |-> err.sq, den |-> instFluxToNanojansky(instFlux, instFluxErr)]

LocalKinds == {"LocalNanojansky", "LocalNanojanskyErr", "LocalMagnitude", "LocalMagnitudeErr"}

(* _func of the four local-calibration functors, row by row on a frame     *)
(* that holds the four columns.                                            *)
localFunc(kind, df) ==
    [r \in DOMAIN df |->
       CASE kind = "LocalNanojansky" ->
              instFluxToNanojansky(df[r].instFlux, df[r].localCalib)
         [] kind = "LocalNanojanskyErr" ->
              instFluxErrToNanojanskyErr(df[r].instFlux, df[r].instFluxErr,
                                         df[r].localCalib, df[r].localCalibErr)
         [] kind = "LocalMagnitude" ->
              instFluxToMagnitude(df[r].instFlux, df[r].localCalib)
         [] OTHER ->
              instFluxErrToMagnitudeErr(df[r].instFlux, df[r].instFluxErr,
                                        df[r].localCalib, df[r].localCalibErr)]

(* f._func(df) on a local-calibration functor. *)
EvaluateLocal(kind, df) ==
    /\ Idle
    /\ call' = [NoCall EXCEPT !.op = "LocalPhotometry._func", !.kind = kind,
                              !.args = [df |-> df]]
    /\ Deliver(Returned(localFunc(kind, df), <<>>))
    /\ prev' = Snapshot
    /\ UNCHANGED <<functors, composites, nops>>

(* f(t, dropna=dropna) on a labeller. *)
EvaluateLabeller(f, t, dropna) ==
    /\ Idle
    /\ call' = [NoCall EXCEPT !.op = "Labeller.__call__", !.target = f, !.table = t,
                              !.dropna = dropna]
    /\ Deliver(LabellerCall(functors, f, t, dropna))
    /\ prev' = Snapshot
    /\ functors' = selfAfterCall(functors, f, t)
    /\ UNCHANGED <<composites, nops>>

InitCascade ==
    /\ functors \in { fs \in InitFunctors : fs["column"].dataset = "ref" /\ fs["mag"].filt = None }
    /\ composites \in { [c \in CompositeIds |->
                           IF c = "c1" THEN Composite(fd, None)
                           ELSE Composite([k \in Keys |-> IF k = "x" THEN "color" ELSE "mag"], None)] :
                        fd \in { [k \in Keys |-> IF k = "x" THEN "column" ELSE "mag"],
                                 [k \in {"x"} |-> "color"],
                                 [k \in {"y"} |-> "colsOnly"] } }
    /\ prev = Snapshot
    /\ call = NoCall
    /\ outcome = "none"
    /\ exc = ""
    /\ result = {}
    /\ readLog = <<>>
    /\ nops = 0

NextCascade ==
    \/ \E f \in FunctorIds, v \in FiltOrNone : AssignFilt(f, v)
    \/ \E c \in CompositeIds, v \in FiltOrNone : AssignCompositeFilt(c, v)
    \/ \E c \in CompositeIds, new \in UpdateDicts : UpdateDict(c, new)
    \/ \E c, other \in CompositeIds : UpdateComposite(c, other)
    \/ \E c \in CompositeIds : UpdateOther(c)

SpecCascade == InitCascade /\ [][NextCascade]_vars

Next ==
    \/ Return
    \/ EvaluateAgain
    \/ \E f \in FunctorIds, t \in Tables : Resolve(f, t)
    \/ \E f \in FunctorIds, t \in Tables, dropna \in BOOLEAN : Evaluate(f, t, dropna)
    \/ \E c \in CompositeIds, t \in Tables, dropna \in BOOLEAN :
          \E order \in Orders(composites[c].funcDict) : EvaluateComposite(c, order, t, dropna)

Spec == Init /\ [][Next]_vars

(* Sequences of at most n elements of S. *)
SeqsUpTo(S, n) == UNION { [1..m -> S] : m \in 0..n }

(* Construction of a composite from a sequence of functors. *)
NextBuild ==
    \E c \in CompositeIds, funcs \in SeqsUpTo(FunctorIds, MaxFuncs) : Construct(c, funcs)

SpecBuild == InitCascade /\ [][NextBuild]_vars

(* The column names and rename rules the model draws: names over two       *)
(* characters, rules whose old is a name of one or two characters and      *)
(* whose new is empty, a character of the names or a character outside.    *)
Chars == {"a", "b"}
ColNames == SeqsUpTo(Chars, MaxNameLen) \ {<<>>}
RenameRulePairs ==
    { <<old, new>> : old \in { n \in ColNames : Len(n) <= 2 },
                     new \in {<<>>, <<"b">>, <<"c">>} }
RenameRules == {NoRules} \cup { RuleList(l) : l \in SeqsUpTo(RenameRulePairs, MaxRules) }

(* One construction is looked at on its own: the objects it starts from    *)
(* are fixed.                                                              *)
InitOne ==
    /\ InitCascade
    /\ functors["column"].filt = None
    /\ DOMAIN composites["c1"].funcDict = Keys

NextRename ==
    \E col \in ColNames, renameRules \in RenameRules : RenameCol(col, renameRules)

SpecRename == InitOne /\ [][NextRename]_vars

(* The translation definitions the model draws.  The declared functors are *)
(* none, a Column under a, a Mag under a and a Column under b, or a Column *)
(* without its argument; the flag lists are absent or hold up to MaxFlags  *)
(* names; the rename rules are absent, empty or a single rule.             *)
NoKw == <<>>
DeclaredFuncs ==
    { <<>>,
      << <<(<<"a">>), InitDict("Column", TRUE, TRUE, BareArg(<<"a", "a">>),
                               [x \in {"dataset"} |-> "meas"])>> >>,
      << <<(<<"a">>), InitDict("Mag", TRUE, FALSE, ListArgs(<< <<"b">> >>), NoKw)>>,
         <<(<<"b">>), InitDict("Column", TRUE, FALSE, ListArgs(<< <<"a">> >>), NoKw)>> >>,
      << <<(<<"b">>), InitDict("Column", FALSE, FALSE, ListArgs(<<>>), NoKw)>> >> }
FlagNames == { <<"a">>, <<"b">>, <<"a", "b">> }
FlagLists == {Missing} \cup { Listed(l) : l \in SeqsUpTo(FlagNames, MaxFlags) }
FlagRules ==
    {NoRules, RuleList(<<>>)}
      \cup { RuleList(<<r>>) : r \in { <<(<<"a", "b">>), <<"b">>>>,
                                        <<(<<"a">>), <<>>>>,
                                        <<(<<"a">>), <<"c">>>> } }
Definitions ==
    { [funcs |-> d, flag_rename_rules |-> r, refFlags |-> rf, flags |-> fl] :
        d \in DeclaredFuncs, r \in FlagRules, rf \in FlagLists, fl \in FlagLists }

NextYaml == \E td \in Definitions : FromYaml(td)

SpecYaml == InitOne /\ [][NextYaml]_vars

(* The tables the labeller is called on: flat or hierarchical, readable or *)
(* not, the extendedness column holding in each row a value below, at or   *)
(* above the threshold, a missing value, or an object that is no number.   *)
XValues == { Num(0), Num(4), Num(5), Num(9), NaN, Str }
LabelTable(multi, readFails, xdata) ==
    [multi |-> multi,
     levels |-> IF multi THEN columnLevels ELSE <<>>,
     filters |-> IF multi THEN <<"g", "r">> ELSE <<>>,
     readFails |-> readFails, bdata |-> "num", xdata |-> xdata]
LabelTables ==
    { LabelTable(multi, FALSE, xdata) : multi \in BOOLEAN, xdata \in [Index -> XValues] }
      \cup { LabelTable(FALSE, TRUE, [r \in Index |-> Num(0)]) }

InitLabel ==
    /\ functors = [f \in FunctorIds \cup LabellerIds |-> Functor(None, defaultDataset(f))]
    /\ composites = [c \in CompositeIds |->
                        Composite([k \in Keys |-> IF k = "x" THEN "color" ELSE "mag"], None)]
    /\ prev = Snapshot
    /\ call = NoCall
    /\ outcome = "none"
    /\ exc = ""
    /\ result = {}
    /\ readLog = <<>>
    /\ nops = 0

NextLabel ==
    \E f \in LabellerIds, t \in LabelTables, dropna \in BOOLEAN : EvaluateLabeller(f, t, dropna)

SpecLabel == InitLabel /\ [][NextLabel]_vars

(* The rows the local-calibration functors are evaluated on: positive     *)
(* fluxes, flux errors and calibrations, calibration errors from zero.     *)
PhotRows ==
    [instFlux : 1..2, instFluxErr : 1..2, localCalib : 1..3, localCalibErr : 0..1]
PhotFrames == [Index -> PhotRows]

NextLocal == \E kind \in LocalKinds, df \in PhotFrames : EvaluateLocal(kind, df)

SpecLocal == InitOne /\ [][NextLocal]_vars

(* The initDicts the model draws: a type of the module or an unknown one;  *)
(* no 'args', a bare string, or a list of none, one or two names; and for  *)
(* the other entries none, keywords of Functor, or a 'kwargs' entry that   *)
(* holds a dictionary.                                                     *)
ArgsEntries ==
    { [hasArgs |-> FALSE, bare |-> FALSE, args |-> ListArgs(<<>>)],
      [hasArgs |-> TRUE, bare |-> TRUE, args |-> BareArg(<<"a">>)],
      [hasArgs |-> TRUE, bare |-> TRUE, args |-> BareArg(<<"a", "b">>)],
      [hasArgs |-> TRUE, bare |-> FALSE, args |-> ListArgs(<<>>)],
      [hasArgs |-> TRUE, bare |-> FALSE, args |-> ListArgs(<< <<"a">> >>)],
      [hasArgs |-> TRUE, bare |-> FALSE, args |-> ListArgs(<< <<"a">>, <<"b">> >>)] }
OtherEntries ==
    { NoKw,
      [x \in {"dataset"} |-> "meas"],
      [x \in {"filt"} |-> "g"],
      [x \in {"dataset", "filt"} |-> IF x = "dataset" THEN "forced_src" ELSE "r"],
      [x \in {"kwargs"} |-> [y \in {"dataset"} |-> "meas"]],
      [x \in {"kwargs"} |-> NoKw] }
InitDicts ==
    { InitDict(type, a.hasArgs, a.bare, a.args, rest) :
        type \in {"Column", "Mag", "NoSuchFunctor"}, a \in ArgsEntries,
        rest \in OtherEntries }

NextInit ==
    \E initDict \in InitDicts, nm \in { <<"a">>, <<"b">> } : InitFromDict(initDict, nm)

SpecInit == InitOne /\ [][NextInit]_vars

(* The expressions the model draws:                                        *)
(*   mag(psFlux) - mag(cModelFlux)                                         *)
(*   mag(a) - mag(b)                                                       *)
(*   mag(a) + a                                                            *)
(*   mag( a )                                                              *)
(*   mag(a_instFlux)                                                       *)
(*   a + log(b)                                                            *)
(*   mag(a1)                                                               *)
Exprs ==
    { <<"m", "a", "g", "(", "p", "s", "F", "l", "u", "x", ")", " ", "-", " ", "m", "a", "g", "(", "c", "M", "o", "d", "e", "l", "F", "l", "u", "x", ")">>,
      <<"m", "a", "g", "(", "a", ")", " ", "-", " ", "m", "a", "g", "(", "b", ")">>,
      <<"m", "a", "g", "(", "a", ")", " ", "+", " ", "a">>,
      <<"m", "a", "g", "(", "a", ")", " ", "-", " ", "m", "a", "g", "(", "b", "_", "i", "n", "s", "t", "F", "l", "u", "x", ")">>,
      <<"m", "a", "g", "(", " ", "a", " ", ")">>,
      <<"m", "a", "g", "(", "a", "_", "i", "n", "s", "t", "F", "l", "u", "x", ")">>,
      <<"a", " ", "+", " ", "l", "o", "g", "(", "b", ")">>,
      <<"m", "a", "g", "(", "a", "1", ")">> }

(* The frames they are evaluated on: every choice among these columns. *)
FrameColumns ==
    { <<"a">>,
      <<"b">>,
      <<"a", "_", "i", "n", "s", "t", "F", "l", "u", "x">>,
      <<"b", "_", "i", "n", "s", "t", "F", "l", "u", "x">>,
      <<"p", "s", "F", "l", "u", "x", "_", "i", "n", "s", "t", "F", "l", "u", "x">>,
      <<"c", "M", "o", "d", "e", "l", "F", "l", "u", "x", "_", "i", "n", "s", "t", "F", "l", "u", "x">> }
Frames == { [index |-> Index, columns |-> cs] : cs \in SUBSET FrameColumns }

NextExpr ==
    \/ \E expr \in Exprs : CustomColumns(expr)
    \/ \E df \in Frames, expr \in Exprs : MagAwareEval(df, expr)

SpecExpr == InitOne /\ [][NextExpr]_vars

(***************************************************************************)
(* Properties                                                              *)
(***************************************************************************)
IsEvaluate == call.op = "Functor.__call__"
IsEvaluateComposite == call.op = "CompositeFunctor.__call__"
IsResolve == call.op = "multilevelColumns"

(* The children of the composite the last call was made on. *)
CalledDict == composites[call.target].funcDict

(* The sub-table functor f loads for itself from the called table. *)
OwnLoad(f) == getCols(functors, f, call.table)

(* Every child of the called composite loads its own sub-table. *)
AllLoad == \A k \in DOMAIN CalledDict : OwnLoad(CalledDict[k]).outcome = "returned"

(* The keys of the children whose transform raises on their own sub-table. *)
RaisingKeys ==
    { k \in DOMAIN CalledDict : ~func(CalledDict[k], OwnLoad(CalledDict[k]).val).ok }

AllMissing(index) == [r \in index |-> NaN]

(* C1: a composite evaluated on a hierarchical table in which exactly one  *)
(* child's transform raises returns a table with one column per child; the *)
(* failing child's column is missing in every row of the loaded index and  *)
(* every other column is what that child's transform returns on its own    *)
(* sub-table.  (The rows are those of the call as the claim makes it,      *)
(* without dropna; with dropna the table keeps its columns and, the        *)
(* failing column being missing everywhere, no row.)                       *)
C1_FaultIsolation ==
    (IsEvaluateComposite /\ call.table.multi /\ AllLoad /\ Cardinality(RaisingKeys) = 1)
    => /\ outcome = "returned"
       /\ DOMAIN result.cols = DOMAIN CalledDict
       /\ IF call.dropna
          THEN result.index = {}
          ELSE /\ result.index = Index
               /\ \A k \in DOMAIN CalledDict :
                     result.cols[k] =
                        IF k \in RaisingKeys THEN AllMissing(Index)
                        ELSE func(CalledDict[k], OwnLoad(CalledDict[k]).val).val

C1_Witness ==
    /\ IsEvaluateComposite /\ call.table.multi /\ AllLoad
    /\ Cardinality(RaisingKeys) = 1
    /\ Cardinality(DOMAIN CalledDict) = 2
    /\ ~call.dropna
    /\ outcome = "returned"
    /\ \E k \in DOMAIN CalledDict : k \notin RaisingKeys /\ result.cols[k] # AllMissing(Index)

(* C2: a composite evaluated on a flat table in which exactly one child's  *)
(* transform raises returns a table whose column for that child is missing *)
(* in every row; it does not raise.                                        *)
C2_FlatContainment ==
    (IsEvaluateComposite /\ ~call.table.multi /\ AllLoad /\ Cardinality(RaisingKeys) = 1)
    => /\ outcome = "returned"
       /\ \A k \in RaisingKeys : result.cols[k] = AllMissing(result.index)

(* C3: when the transform raises after the sub-table was loaded, a single  *)
(* functor's evaluation returns, and its column has one missing entry per  *)
(* row of the loaded sub-table under that sub-table's index.  (With dropna *)
(* these entries are then removed, as for any missing entry.)              *)
C3_ContainedFailure ==
    (IsEvaluate /\ OwnLoad(call.target).outcome = "returned"
       /\ ~func(call.target, OwnLoad(call.target).val).ok)
    => /\ outcome = "returned"
       /\ result = IF call.dropna THEN <<>>
                   ELSE AllMissing(OwnLoad(call.target).val.index)

C3_Witness ==
    /\ IsEvaluate /\ OwnLoad(call.target).outcome = "returned"
    /\ ~func(call.target, OwnLoad(call.target).val).ok
    /\ ~call.dropna
    /\ outcome = "returned" /\ DOMAIN result = Index /\ Index # {}

(* C4: evaluating a functor on a hierarchical table for which column       *)
(* resolution raises ValueError raises that ValueError to the caller.      *)
C4_ResolutionErrorRaised ==
    (IsEvaluate /\ call.table.multi
       /\ ~multilevelColumns(functors, call.target, call.table).ok
       /\ multilevelColumns(functors, call.target, call.table).exc = "ValueError")
    => (outcome = "raised" /\ exc = "ValueError")

(* C5: evaluating a functor whose subtype left out columns or _func, on a  *)
(* table that can be read, raises NotImplementedError to the caller.       *)
C5_NotImplementedRaised ==
    (IsEvaluate /\ ClassOf(call.target) \in {"Functor", "ColsOnly"}
       /\ ~call.table.readFails /\ (call.table.multi => Range(call.table.levels) = Range(columnLevels)))
    => (outcome = "raised" /\ exc = "NotImplementedError")

IsAssignCompositeFilt == call.op = "CompositeFunctor.filt"
IsUpdate == call.op = "update" /\ call.kind \in {"dict", "composite"}

Children(cs, c) == { cs[c].funcDict[k] : k \in DOMAIN cs[c].funcDict }

(* C6 as claimed: assigning a non-null filter to a composite leaves alone  *)
(* every child that already has a filter of its own.                       *)
C6_KeepsOwnFilter ==
    (IsAssignCompositeFilt /\ call.arg # None)
    => \A f \in Children(composites, call.target) :
          FiltOf(prev.functors, f) # None => FiltOf(functors, f) = FiltOf(prev.functors, f)

(* C6 amended: assigning a non-null filter to a composite gives that       *)
(* filter to every child, one that already had a filter of its own         *)
(* included; only a Color child, whose setter ignores assignment, and the  *)
(* functors that are not children keep what they had.  The composite       *)
(* stores the filter and its children stay the same.                       *)
C6_OverwritesEveryChild ==
    (IsAssignCompositeFilt /\ call.arg # None)
    => /\ \A f \in FunctorIds :
             FiltOf(functors, f) =
                IF f \in Children(prev.composites, call.target) /\ ClassOf(f) # "Color"
                THEN call.arg ELSE FiltOf(prev.functors, f)
       /\ composites = [prev.composites EXCEPT ![call.target].filt = call.arg]

C6_Witness ==
    /\ IsAssignCompositeFilt /\ call.arg # None
    /\ \E f \in Children(composites, call.target) :
          /\ FiltOf(prev.functors, f) \notin {None, call.arg}
          /\ FiltOf(functors, f) = call.arg

(* C7 as claimed: after a non-null filter r is assigned to a composite     *)
(* whose children have no filter, every child's filter is r; and after an  *)
(* update of a composite that stores r, every child the update added that  *)
(* had no filter has filter r.                                             *)
C7_CascadeReachesEveryChild ==
    /\ (IsAssignCompositeFilt /\ call.arg # None
          /\ \A f \in Children(prev.composites, call.target) : FiltOf(prev.functors, f) = None)
       => \A f \in Children(composites, call.target) : FiltOf(functors, f) = call.arg
    /\ (IsUpdate /\ prev.composites[call.target].filt # None)
       => \A k \in DOMAIN call.new :
             FiltOf(prev.functors, call.new[k]) = None
             => FiltOf(functors, call.new[k]) = prev.composites[call.target].filt

(* C7 amended: the same for every child other than a Color, whose filter   *)
(* reads as unset whatever is assigned.                                    *)
C7_CascadeReachesSettableChildren ==
    /\ (IsAssignCompositeFilt /\ call.arg # None
          /\ \A f \in Children(prev.composites, call.target) : FiltOf(prev.functors, f) = None)
       => \A f \in Children(composites, call.target) :
             FiltOf(functors, f) = IF ClassOf(f) = "Color" THEN None ELSE call.arg
    /\ (IsUpdate /\ prev.composites[call.target].filt # None)
       => /\ composites[call.target].filt = prev.composites[call.target].filt
          /\ \A k \in DOMAIN call.new :
                /\ composites[call.target].funcDict[k] = call.new[k]
                /\ FiltOf(prev.functors, call.new[k]) = None
                   => FiltOf(functors, call.new[k]) =
                         IF ClassOf(call.new[k]) = "Color" THEN None
                         ELSE prev.composites[call.target].filt

C7_Witness ==
    /\ IsUpdate /\ prev.composites[call.target].filt # None
    /\ \E k \in DOMAIN call.new :
          /\ call.new[k] \notin Children(prev.composites, call.target)
          /\ ClassOf(call.new[k]) # "Color"
          /\ FiltOf(prev.functors, call.new[k]) = None
          /\ FiltOf(functors, call.new[k]) = prev.composites[call.target].filt

(* What a child resolves on its own for the called table: resolved keys on *)
(* a hierarchical table, required names on a flat one.                     *)
ChildColumns(f) ==
    IF call.table.multi THEN multilevelColumns(functors, f, call.table) ELSE columns(f)

AllResolve == \A k \in DOMAIN CalledDict : ChildColumns(CalledDict[k]).ok

(* C8: one composite evaluation makes one bulk read, whatever the number   *)
(* of children, and none at all only when a child's columns do not         *)
(* resolve; the read requests the union of the columns each child resolves *)
(* on its own.                                                             *)
C8_OneBulkRead ==
    IsEvaluateComposite
    => /\ Len(readLog) <= 1
       /\ AllResolve <=> Len(readLog) = 1
       /\ AllResolve =>
             readLog[1] = UNION { ChildColumns(CalledDict[k]).val : k \in DOMAIN CalledDict }

C8_Witness ==
    /\ IsEvaluateComposite /\ outcome = "returned"
    /\ Cardinality(DOMAIN CalledDict) = 2
    /\ Len(readLog) = 1
    /\ Cardinality(readLog[1]) = 3

(* C9: when the bulk read raises, evaluation of a functor or of a          *)
(* composite raises to the caller; nothing is returned in its place.       *)
C9_ReadFailureRaises ==
    ((IsEvaluate \/ IsEvaluateComposite) /\ call.table.readFails /\ Len(readLog) > 0)
    => (outcome = "raised" /\ Len(readLog) = 1)

C9_Witness ==
    /\ IsEvaluate /\ call.table.readFails /\ Len(readLog) = 1
    /\ outcome = "raised"

FilterOfKeys(ks) == { k.filter : k \in ks }

(* C10: Functor.multilevelColumns on a table with the filter level, once   *)
(* the table's levels are accepted and the functor's columns are known:    *)
(* with the filter unset it succeeds exactly when dataset is 'ref', and    *)
(* then resolves in the first filter the table lists, and it raises        *)
(* ValueError for any other dataset; with the filter set it resolves in    *)
(* that filter, for any dataset, and does not raise.                       *)
C10_FilterPolicy ==
    (IsResolve /\ ClassOf(call.target) # "Color" /\ "filter" \in Range(call.table.levels)
       /\ Range(call.table.levels) = Range(columnLevels) /\ columns(call.target).ok)
    => IF FiltOf(functors, call.target) = None
       THEN IF functors[call.target].dataset = "ref"
            THEN outcome = "returned" /\ FilterOfKeys(result) = {call.table.filters[1]}
            ELSE outcome = "raised" /\ exc = "ValueError"
       ELSE outcome = "returned" /\ FilterOfKeys(result) = {FiltOf(functors, call.target)}

C10_Witness ==
    /\ IsResolve /\ call.target = "column" /\ Range(call.table.levels) = Range(columnLevels)
    /\ FiltOf(functors, call.target) = None /\ functors[call.target].dataset = "ref"
    /\ call.table.filters[1] = "r"
    /\ outcome = "returned" /\ FilterOfKeys(result) = {"r"}

(***************************************************************************)
(* C11.  Functor.multilevelColumns (Color overrides it without a check)    *)
(* raises the configuration error ValueError whenever the set of the       *)
(* table's column levels differs from the set of _columnLevels, whatever   *)
(* the functor's columns, filter and dataset are (the check comes first);  *)
(* when the two sets are equal, in whatever order the table lists its      *)
(* levels, the level check raises nothing: the call raises only what the   *)
(* columns property or the filter/dataset policy raises.                   *)
(***************************************************************************)
C11_LevelCheck ==
    (IsResolve /\ ClassOf(call.target) # "Color") =>
        IF Range(call.table.levels) # Range(columnLevels)
        THEN outcome = "raised" /\ exc = "ValueError"
        ELSE /\ (outcome = "raised") <=>
                    (\/ ~columns(call.target).ok
                     \/ (FiltOf(functors, call.target) = None
                           /\ functors[call.target].dataset # "ref"))
             /\ (outcome = "raised" /\ columns(call.target).ok) => exc = "ValueError"
             /\ ~columns(call.target).ok => exc = "NotImplementedError"

(* A table with a level missing, asked by a functor without columns: the   *)
(* level check answers before the columns are looked at.                   *)
C11_Witness ==
    /\ IsResolve /\ call.target = "bare"
    /\ Range(call.table.levels) # Range(columnLevels)
    /\ outcome = "raised" /\ exc = "ValueError"

(* The same levels in another order are accepted. *)
C11_WitnessReordered ==
    /\ IsResolve /\ call.target = "column"
    /\ call.table.levels # columnLevels
    /\ Range(call.table.levels) = Range(columnLevels)
    /\ outcome = "returned"

(***************************************************************************)
(* C12.  A functor called without dropna on a table from which it loads    *)
(* its sub-table returns a column whose row index is the index of that     *)
(* sub-table, whether the transform returned or its failure was contained. *)
(***************************************************************************)
C12_IndexPreserved ==
    (IsEvaluate /\ ~call.dropna /\ OwnLoad(call.target).outcome = "returned")
    => /\ outcome = "returned"
       /\ DOMAIN result = OwnLoad(call.target).val.index

(* A contained failure, answered on the loaded index. *)
C12_Witness ==
    /\ IsEvaluate /\ ~call.dropna /\ OwnLoad(call.target).outcome = "returned"
    /\ ~func(call.target, OwnLoad(call.target).val).ok
    /\ outcome = "returned" /\ DOMAIN result = Index

(* A transform that returned a column with a missing value in it. *)
C12_WitnessSuccess ==
    /\ IsEvaluate /\ ~call.dropna /\ OwnLoad(call.target).outcome = "returned"
    /\ func(call.target, OwnLoad(call.target).val).ok
    /\ \E r \in DOMAIN result : result[r] = NaN
    /\ outcome = "returned" /\ DOMAIN result = Index

(***************************************************************************)
(* C13.  A composite call that returns: with dropna the rows of the result *)
(* are exactly the rows in which no column of the assembled table (what    *)
(* the same call returns without dropna) is missing, and the kept cells    *)
(* are the assembled ones; without dropna the rows are all the loaded rows.*)
(***************************************************************************)
Assembled == CompositeCall(functors, CalledDict, call.order, call.table, FALSE).val

C13_DropMissingRows ==
    (IsEvaluateComposite /\ outcome = "returned")
    => /\ DOMAIN result.cols = DOMAIN Assembled.cols
       /\ IF call.dropna
          THEN /\ \A r \in Index :
                     r \in result.index <=>
                        \A k \in DOMAIN Assembled.cols : Assembled.cols[k][r] # NaN
               /\ \A k \in DOMAIN result.cols : \A r \in result.index :
                     result.cols[k][r] = Assembled.cols[k][r]
          ELSE /\ result.index = Index
               /\ \A k \in DOMAIN result.cols : DOMAIN result.cols[k] = Index

(* Two columns, one of them missing in one row: that row goes, the other stays. *)
C13_Witness ==
    /\ IsEvaluateComposite /\ outcome = "returned" /\ call.dropna
    /\ Cardinality(DOMAIN result.cols) = 2
    /\ result.index # {} /\ result.index # Index
    /\ \E r \in Index \ result.index : \E k \in DOMAIN Assembled.cols :
          Assembled.cols[k][r] # NaN

C14_WitnessComposite ==
    /\ IsEvaluateComposite /\ call.repeat /\ outcome = "returned"
    /\ result.index = Index

(***************************************************************************)
(* C16.  After c.update(other), other a dictionary or a composite: the     *)
(* keys of c are its previous keys and those of other; every key of other  *)
(* holds other's functor, also where c had one; every other key holds the  *)
(* functor it held before.  (The mapping of every other composite, other   *)
(* included unless it is c, stays as it was.)                              *)
(***************************************************************************)
C16_UpdateMerges ==
    IsUpdate =>
        LET old == prev.composites[call.target].funcDict
            now == composites[call.target].funcDict
        IN /\ DOMAIN now = DOMAIN old \cup DOMAIN call.new
           /\ \A k \in DOMAIN call.new : now[k] = call.new[k]
           /\ \A k \in DOMAIN old \ DOMAIN call.new : now[k] = old[k]
           /\ \A c \in CompositeIds \ {call.target} :
                 composites[c].funcDict = prev.composites[c].funcDict

(* A collision on one key, settled for other, beside a key other lacks. *)
C16_Witness ==
    /\ IsUpdate
    /\ \E k \in DOMAIN call.new :
          /\ k \in DOMAIN prev.composites[call.target].funcDict
          /\ prev.composites[call.target].funcDict[k] # call.new[k]
          /\ composites[call.target].funcDict[k] = call.new[k]
    /\ \E k \in DOMAIN composites[call.target].funcDict : k \notin DOMAIN call.new

(***************************************************************************)
(* C15.  A composite built from a sequence of functors raises nothing and  *)
(* holds one child per distinct shortname of the sequence, under that      *)
(* shortname: the functor that comes last in the sequence among those      *)
(* with the shortname.                                                     *)
(***************************************************************************)
IsConstruct == call.op = "CompositeFunctor.__init__"

C15_OneChildPerShortname ==
    IsConstruct =>
        LET funcs == call.args.funcs
            fd == composites[call.target].funcDict
        IN /\ outcome = "returned"
           /\ DOMAIN fd = { shortname(funcs[i]) : i \in DOMAIN funcs }
           /\ \A i \in DOMAIN funcs :
                 (\A j \in DOMAIN funcs : j > i => shortname(funcs[j]) # shortname(funcs[i]))
                 => fd[shortname(funcs[i])] = funcs[i]

(* Two different functors with one shortname, the first of them lost. *)
C15_Witness ==
    /\ IsConstruct
    /\ \E i, j \in DOMAIN call.args.funcs :
          /\ i < j
          /\ call.args.funcs[i] # call.args.funcs[j]
          /\ shortname(call.args.funcs[i]) = shortname(call.args.funcs[j])
          /\ composites[call.target].funcDict[shortname(call.args.funcs[i])]
                # call.args.funcs[i]
    /\ Cardinality(DOMAIN composites[call.target].funcDict) = 2

(***************************************************************************)
(* C19.  renameCol applies the rules in list order, each to the name the   *)
(* previous one left; a rule (old, new) applies only when that name starts *)
(* with old, and then puts new in the place of that leading old and keeps  *)
(* the rest of the name; without rules the name is returned as it is.      *)
(***************************************************************************)
IsRenameCol == call.op = "renameCol"

(* What the claim describes: only the leading old is replaced. *)
RECURSIVE PrefixRenameFrom(_, _, _)
PrefixRenameFrom(col, rules, i) ==
    IF i > Len(rules) THEN col
    ELSE PrefixRenameFrom(IF startswith(col, rules[i][1])
                          THEN rules[i][2] \o SubSeq(col, Len(rules[i][1]) + 1, Len(col))
                          ELSE col,
                          rules, i + 1)

C19_PrefixOnly ==
    IsRenameCol =>
        result = IF call.args.renameRules.none THEN call.args.col
                 ELSE PrefixRenameFrom(call.args.col, call.args.renameRules.list, 1)

(***************************************************************************)
(* C20.  from_yaml raises exactly when a functor declared under funcs      *)
(* cannot be constructed.  When it returns, the composite's keys are the   *)
(* declared names and the renamed names of the refFlags and of the flags;  *)
(* a key that is the renamed name of a flag holds Column(flag,             *)
(* dataset='meas') for the original name of the last such flag; otherwise  *)
(* a key that is the renamed name of a refFlag holds Column(refFlag,       *)
(* dataset='ref') for the last such refFlag; every other key holds the     *)
(* functor declared under it.                                              *)
(***************************************************************************)
IsFromYaml == call.op = "from_yaml"

Renamed(flag) == renameCol(flag, call.args.flag_rename_rules)
RefFlagsGiven == IF call.args.refFlags.none THEN <<>> ELSE call.args.refFlags.list
FlagsGiven == IF call.args.flags.none THEN <<>> ELSE call.args.flags.list
RenamedOf(flags) == { Renamed(flags[i]) : i \in DOMAIN flags }
LastRenamedTo(flags, i) ==
    \A j \in DOMAIN flags : j > i => Renamed(flags[j]) # Renamed(flags[i])
ColumnOf(flag, ds) == [class |-> "Column", col |-> flag, filt |-> None, dataset |-> ds]

C20_FromYaml ==
    IsFromYaml =>
        LET declared == call.args.funcs
        IN /\ (outcome = "raised") <=>
                  \E i \in DOMAIN declared : ~init_fromDict(declared[i][2], declared[i][1]).ok
           /\ outcome = "returned" =>
                 LET fd == result.funcDict
                 IN /\ DOMAIN fd = { declared[i][1] : i \in DOMAIN declared }
                                      \cup RenamedOf(RefFlagsGiven) \cup RenamedOf(FlagsGiven)
                    /\ \A i \in DOMAIN FlagsGiven :
                          LastRenamedTo(FlagsGiven, i)
                          => fd[Renamed(FlagsGiven[i])] = ColumnOf(FlagsGiven[i], "meas")
                    /\ \A i \in DOMAIN RefFlagsGiven :
                          (LastRenamedTo(RefFlagsGiven, i)
                             /\ Renamed(RefFlagsGiven[i]) \notin RenamedOf(FlagsGiven))
                          => fd[Renamed(RefFlagsGiven[i])] = ColumnOf(RefFlagsGiven[i], "ref")
                    /\ \A i \in DOMAIN declared :
                          declared[i][1] \notin RenamedOf(RefFlagsGiven) \cup RenamedOf(FlagsGiven)
                          => fd[declared[i][1]] =
                                init_fromDict(declared[i][2], declared[i][1]).val

(* One key claimed by a declared functor, a renamed refFlag and a flag. *)
C20_Witness ==
    /\ IsFromYaml /\ outcome = "returned"
    /\ \E i \in DOMAIN call.args.funcs, j \in DOMAIN RefFlagsGiven, k \in DOMAIN FlagsGiven :
          /\ Renamed(RefFlagsGiven[j]) = call.args.funcs[i][1]
          /\ Renamed(FlagsGiven[k]) = call.args.funcs[i][1]
          /\ Renamed(RefFlagsGiven[j]) # RefFlagsGiven[j]
          /\ result.funcDict[call.args.funcs[i][1]] = ColumnOf(FlagsGiven[k], "meas")
    /\ \E j \in DOMAIN RefFlagsGiven :
          /\ Renamed(RefFlagsGiven[j]) # RefFlagsGiven[j]
          /\ result.funcDict[Renamed(RefFlagsGiven[j])] = ColumnOf(RefFlagsGiven[j], "ref")

(***************************************************************************)
(* C17.  The columns of an expression functor are the names of the         *)
(* expression other than the math words, with the argument x of every      *)
(* mag(x) given as its flux name (x_instFlux unless x ends in _instFlux).  *)
(***************************************************************************)
IsCustomColumns == call.op = "CustomFunctor.columns"

(* What the claim describes, read from position i on: the argument of a    *)
(* mag call gives its flux name; any other name gives itself unless it is  *)
(* a math word; numbers give nothing.                                      *)
RECURSIVE ClaimedColumns(_, _)
ClaimedColumns(s, i) ==
    IF i > Len(s) THEN {}
    ELSE IF matchMag(s, i, TRUE).ok
    THEN {fluxName(matchMag(s, i, TRUE).group)}
            \cup ClaimedColumns(s, matchMag(s, i, TRUE).end + 1)
    ELSE IF IsLetter(s[i])
    THEN (IF SubSeq(s, i, RunEnd(s, i, "word")) \in ignore_words THEN {}
          ELSE {SubSeq(s, i, RunEnd(s, i, "word"))})
            \cup ClaimedColumns(s, RunEnd(s, i, "word") + 1)
    ELSE IF IsWord(s[i]) THEN ClaimedColumns(s, RunEnd(s, i, "word") + 1)
    ELSE ClaimedColumns(s, i + 1)

C17_RequiredColumns ==
    IsCustomColumns => result = ClaimedColumns(call.args.expr, 1)

(***************************************************************************)
(* C18.  mag_aware_eval gives df.eval one expression or two: first the     *)
(* expression with mag(x) rewritten over x; if that evaluation returns,    *)
(* its value is returned and nothing else is evaluated; if it raises, the  *)
(* expression with mag(x) rewritten over x_instFlux is evaluated, once,    *)
(* and its value is returned or its exception raised.                      *)
(***************************************************************************)
IsMagAwareEval == call.op = "mag_aware_eval"

C18_TwoAttempts ==
    IsMagAwareEval =>
        LET literal == dfEval(call.args.df, subMag(call.args.expr, 1, <<>>))
            suffixed == dfEval(call.args.df, subMag(call.args.expr, 1, InstFluxSuffix))
        IN /\ Len(readLog) \in {1, 2}
           /\ readLog[1] = subMag(call.args.expr, 1, <<>>)
           /\ literal.ok => /\ Len(readLog) = 1
                             /\ outcome = "returned" /\ result = literal.val
           /\ ~literal.ok => /\ Len(readLog) = 2
                              /\ readLog[2] = subMag(call.args.expr, 1, InstFluxSuffix)
                              /\ IF suffixed.ok
                                 THEN outcome = "returned" /\ result = suffixed.val
                                 ELSE outcome = "raised" /\ exc = suffixed.exc

(* The literal names are not columns, the flux names are: the retry answers. *)
C18_Witness ==
    /\ IsMagAwareEval /\ Len(readLog) = 2 /\ outcome = "returned"
    /\ readLog[1] # readLog[2]
    /\ result.expr = readLog[2]

(* Both rewrites evaluate on the frame: only the literal one is evaluated. *)
C18_WitnessFirst ==
    /\ IsMagAwareEval /\ Len(readLog) = 1 /\ outcome = "returned"
    /\ dfEval(call.args.df, subMag(call.args.expr, 1, InstFluxSuffix)).ok
    /\ subMag(call.args.expr, 1, InstFluxSuffix) # readLog[1]

(* Neither evaluates: the retry's exception leaves. *)
C18_WitnessRaised ==
    /\ IsMagAwareEval /\ Len(readLog) = 2 /\ outcome = "raised"
    /\ readLog[1] # readLog[2]

(***************************************************************************)
(* C21.  init_fromDict calls the type with the contents of the 'args'      *)
(* entry as positional arguments and the contents of the 'kwargs' entry    *)
(* as keyword arguments.                                                   *)
(***************************************************************************)
IsInitFromDict == call.op = "init_fromDict"

GivenArgs(initDict) ==
    IF ~initDict.hasArgs THEN <<>>
    ELSE IF initDict.bare THEN <<initDict.args.str>> ELSE initDict.args.list

(* What the claim describes: the keywords are those of the 'kwargs' entry. *)
ClaimedElement(initDict) ==
    construct(initDict.functor, GivenArgs(initDict),
              IF "kwargs" \in DOMAIN initDict.rest THEN initDict.rest["kwargs"] ELSE NoKw)

C21_KwargsEntry ==
    (IsInitFromDict /\ call.args.initDict.functor \in {"Column", "Mag"})
    => /\ (outcome = "returned") <=> ClaimedElement(call.args.initDict).ok
       /\ outcome = "returned" => result.element = ClaimedElement(call.args.initDict).val

(***************************************************************************)
(* C22.  When the constructor called by init_fromDict raises an exception  *)
(* of type E, init_fromDict raises E with a message made of the name       *)
(* given, the type's name and the positional arguments; and whether the    *)
(* construction succeeds or fails, the dictionary passed in is afterwards  *)
(* what it was.                                                            *)
(***************************************************************************)
Constructed ==
    construct(call.args.initDict.functor, GivenArgs(call.args.initDict),
              call.args.initDict.rest)

C22_ErrorKeepsTypeAndEntry ==
    IsInitFromDict =>
        /\ result.passed = call.args.initDict
        /\ (call.args.initDict.functor \in {"Column", "Mag"} /\ ~Constructed.ok)
           => /\ outcome = "raised"
              /\ exc = Constructed.exc
              /\ result.message = [name |-> call.args.name,
                                    type |-> call.args.initDict.functor,
                                    args |-> GivenArgs(call.args.initDict)]
        /\ (call.args.initDict.functor \in {"Column", "Mag"} /\ Constructed.ok)
           => outcome = "returned"

(* A constructor that fails on a surplus positional, the entry intact. *)
C22_Witness ==
    /\ IsInitFromDict /\ outcome = "raised" /\ exc = "TypeError"
    /\ call.args.initDict.hasArgs /\ Len(result.message.args) = 2
    /\ result.passed.functor = "Column"

(* A construction that succeeds, the entry intact. *)
C22_WitnessBuilt ==
    /\ IsInitFromDict /\ outcome = "returned"
    /\ call.args.initDict.hasArgs /\ call.args.initDict.bare
    /\ result.passed = call.args.initDict

(***************************************************************************)
(* C23.  A labeller called with dropna=True hands back what                *)
(* Functor.__call__ hands back without dropna; a column it returns has one *)
(* entry for every row of the table, labels or, after a contained failure, *)
(* missing values.                                                         *)
(***************************************************************************)
IsEvaluateLabeller == call.op = "Labeller.__call__"

C23_LabellerKeepsRows ==
    IsEvaluateLabeller =>
        LET plain == FunctorCall(functors, call.target, call.table, FALSE)
        IN /\ outcome = plain.outcome /\ exc = plain.exc /\ result = plain.val
           /\ outcome = "returned" => DOMAIN result = Index

(* dropna=True on a column that would lose all its rows to it. *)
C23_Witness ==
    /\ IsEvaluateLabeller /\ call.dropna /\ outcome = "returned"
    /\ DOMAIN result = Index
    /\ \A r \in Index : result[r] = NaN

(* dropna=True on a column of labels, one of them for a missing value. *)
C23_WitnessLabels ==
    /\ IsEvaluateLabeller /\ call.dropna /\ outcome = "returned"
    /\ \E r \in Index : result[r] = LabelCell(2)
    /\ \E r \in Index : result[r] = LabelCell(1)

(***************************************************************************)
(* C24.  StarGalaxyLabeller labels each row of the table, under the row's  *)
(* own index: star when the extendedness is below 0.5, galaxy when it is   *)
(* 0.5 or more, null when it is missing.                                   *)
(***************************************************************************)
LabelOf(cell) == categories[cell.v + 1]

NumericOrMissing == \A r \in Index : call.table.xdata[r] # Str

C24_StarGalaxyLabels ==
    (IsEvaluateLabeller /\ call.target = "starGalaxy" /\ ~call.table.readFails
       /\ NumericOrMissing)
    => /\ outcome = "returned"
       /\ DOMAIN result = Index
       /\ \A r \in Index :
             LET x == call.table.xdata[r]
             IN /\ result[r].t = "label"
                /\ LabelOf(result[r]) =
                      IF x = NaN THEN "null"
                      ELSE IF x.v < Threshold THEN "star" ELSE "galaxy"

(* A value of exactly 0.5 beside a missing one: galaxy, null. *)
C24_Witness ==
    /\ IsEvaluateLabeller /\ outcome = "returned"
    /\ call.table.xdata[1] = Num(Threshold) /\ call.table.xdata[NumRows] = NaN
    /\ LabelOf(result[1]) = "galaxy" /\ LabelOf(result[NumRows]) = "null"

(* A value just below 0.5 and one above: star, galaxy. *)
C24_WitnessStar ==
    /\ IsEvaluateLabeller /\ outcome = "returned"
    /\ call.table.xdata[1] = Num(4) /\ call.table.xdata[NumRows] = Num(9)
    /\ LabelOf(result[1]) = "star" /\ LabelOf(result[NumRows]) = "galaxy"

(***************************************************************************)
(* C25 as claimed.  A filter assignment or an update on a composite keeps  *)
(* the agreement between the composites and their children: when, before   *)
(* the operation, every composite that stores a filter has that filter on  *)
(* each of its children that accept one, the same is true after it,        *)
(* composites that share children included.                                *)
(***************************************************************************)
FiltersAgree(fs, cs) ==
    \A c \in CompositeIds :
       cs[c].filt # None
       => \A f \in Children(cs, c) : ClassOf(f) # "Color" => FiltOf(fs, f) = cs[c].filt

C25_ChildrenFollowStoredFilter ==
    ((IsAssignCompositeFilt \/ IsUpdate) /\ FiltersAgree(prev.functors, prev.composites))
    => FiltersAgree(functors, composites)

(***************************************************************************)
(* C26.  A composite evaluated with dropna on a hierarchical table in      *)
(* which exactly one child's transform raises returns a table with one     *)
(* column per child and no row: the column assembled for the failing child *)
(* is missing in every row of the index, so no row is complete.            *)
(***************************************************************************)
C26_OneFailureEmptiesResult ==
    (IsEvaluateComposite /\ call.table.multi /\ call.dropna /\ AllLoad
       /\ Cardinality(RaisingKeys) = 1)
    => /\ outcome = "returned"
       /\ DOMAIN result.cols = DOMAIN CalledDict
       /\ result.index = {}
       /\ \A k \in DOMAIN result.cols : DOMAIN result.cols[k] = {}
       /\ \A k \in RaisingKeys : Assembled.cols[k] = AllMissing(Index)

(* Two children, one failing; the other has a value in every row, and the  *)
(* rows go all the same.                                                   *)
C26_Witness ==
    /\ IsEvaluateComposite /\ call.table.multi /\ call.dropna /\ AllLoad
    /\ Cardinality(RaisingKeys) = 1
    /\ Cardinality(DOMAIN CalledDict) = 2
    /\ outcome = "returned" /\ result.index = {}
    /\ \E k \in DOMAIN CalledDict \ RaisingKeys :
          \A r \in Index : Assembled.cols[k][r] # NaN

(***************************************************************************)
(* C27 as claimed.  mag_aware_eval on a frame that holds exactly the       *)
(* columns CustomFunctor.columns reports for the expression returns: one   *)
(* of its two rewrites refers to loaded columns only.                      *)
(***************************************************************************)
RefersToLoaded(df, expr) ==
    \A n \in exprNames(expr, 1) : ~n.called => n.name \in df.columns

C27_ReportedColumnsSuffice ==
    (IsMagAwareEval /\ call.args.df.columns = customColumns(call.args.expr))
    => /\ outcome = "returned"
       /\ \/ RefersToLoaded(call.args.df, subMag(call.args.expr, 1, <<>>))
          \/ RefersToLoaded(call.args.df, subMag(call.args.expr, 1, InstFluxSuffix))

(***************************************************************************)
(* C28.  Assigning None to a composite's filter stores None on it and      *)
(* changes no functor and no composite's children; an update of a          *)
(* composite that stores None merges the new children into its dictionary  *)
(* and changes no functor's filter, a new child's or an old one's.         *)
(***************************************************************************)
C28_NoneDoesNotCascade ==
    /\ (IsAssignCompositeFilt /\ call.arg = None)
       => /\ composites = [prev.composites EXCEPT ![call.target].filt = None]
          /\ functors = prev.functors
    /\ (IsUpdate /\ prev.composites[call.target].filt = None)
       => /\ functors = prev.functors
          /\ composites[call.target].filt = None
          /\ DOMAIN composites[call.target].funcDict =
                DOMAIN prev.composites[call.target].funcDict \cup DOMAIN call.new
          /\ \A k \in DOMAIN call.new : composites[call.target].funcDict[k] = call.new[k]

(* None assigned to a composite that stored a filter: its child keeps it. *)
C28_Witness ==
    /\ IsAssignCompositeFilt /\ call.arg = None
    /\ prev.composites[call.target].filt # None
    /\ composites[call.target].filt = None
    /\ \E f \in Children(composites, call.target) :
          FiltOf(functors, f) = prev.composites[call.target].filt

(* An update under a stored None that adds a child with a filter of its    *)
(* own beside an old child with another filter or none.                    *)
C28_WitnessUpdate ==
    /\ IsUpdate /\ prev.composites[call.target].filt = None
    /\ \E k \in DOMAIN call.new :
          /\ call.new[k] \notin Children(prev.composites, call.target)
          /\ FiltOf(functors, call.new[k]) # None
          /\ \E f \in Children(prev.composites, call.target) :
                /\ f \in Children(composites, call.target)
                /\ FiltOf(functors, f) # FiltOf(functors, call.new[k])

(***************************************************************************)
(* C29.  Whatever assignment or update is made, on a functor or on a       *)
(* composite, a Color is what it was: its filter reads None before and     *)
(* after, its state is unchanged, and on every hierarchical table it       *)
(* resolves to its flux column under its two own filters and its dataset,  *)
(* whatever filter a composite that holds it stores.                       *)
(***************************************************************************)
ColorKeys(f) ==
    { MKey(Filt1, defaultDataset(f), ColOf(f)), MKey(Filt2, defaultDataset(f), ColOf(f)) }

C29_ColorOutsideCascade ==
    call.op # "none"
    => \A f \in FunctorIds :
          ClassOf(f) = "Color"
          => /\ FiltOf(prev.functors, f) = None
             /\ FiltOf(functors, f) = None
             /\ functors[f] = prev.functors[f]
             /\ \A t \in Tables :
                   t.multi => multilevelColumns(functors, f, t) = Ok(ColorKeys(f))

(* A filter assigned to a composite that holds a Color and another child:  *)
(* the other child has it, the composite stores it.                        *)
C29_Witness ==
    /\ IsAssignCompositeFilt /\ call.arg # None
    /\ composites[call.target].filt = call.arg
    /\ \E f, g \in Children(composites, call.target) :
          /\ ClassOf(f) = "Color" /\ FiltOf(functors, f) = None
          /\ ClassOf(g) # "Color" /\ FiltOf(functors, g) = call.arg

(* A filter assigned to the Color itself. *)
C29_WitnessDirect ==
    /\ call.op = "Functor.filt" /\ ClassOf(call.target) = "Color" /\ call.arg # None
    /\ FiltOf(functors, call.target) = None

(***************************************************************************)
(* C30 as claimed.  In every row, what LocalMagnitudeErr returns is        *)
(* 2.5 / ln(10) times what LocalNanojanskyErr returns for the row, over    *)
(* what LocalNanojansky returns for it, instFlux * localCalib.  (Two       *)
(* values 2.5/ln(10) * root(s) / d with positive d are equal exactly when  *)
(* s * d'^2 = s' * d^2.)                                                   *)
(***************************************************************************)
IsEvaluateLocal == call.op = "LocalPhotometry._func"

SameValue(x, y) == x.sq * y.den * y.den = y.sq * x.den * x.den

C30_MagErrOverCalibratedFlux ==
    (IsEvaluateLocal /\ call.kind = "LocalMagnitudeErr")
    => \A r \in Index :
          SameValue(result[r],
                    [sq |-> localFunc("LocalNanojanskyErr", call.args.df)[r].sq,
                     den |-> localFunc("LocalNanojansky", call.args.df)[r]])

====
